---- MODULE Spec2Model ----
(***************************************************************************)
(* A model of lhci-ai-assistant: the comparator                            *)
(* (src/metrics/comparator.ts), the report selector and loader             *)
(* (src/metrics/loader.ts), the baseline synthesis                         *)
(* (src/metrics/baseline.ts), the extractor (src/metrics/extractor.ts),    *)
(* the analysis orchestrator (src/analyzer.ts), the analyze command        *)
(* (src/cli.ts, src/config.ts), the pull request commenter                 *)
(* (src/github/pr-commenter.ts) and the Copilot client singleton           *)
(* (src/ai/copilot.ts).  Each part has its own specification; the state of *)
(* the parts a specification does not exercise stays idle.                 *)
(*                                                                         *)
(* Numbers.  Scores, Core Web Vitals and diffs are JavaScript numbers.     *)
(* They are modelled in fixed point: the integer n stands for n/1000, so   *)
(* a score of 0.85 is 850, a CLS of 0.02 is 20 and a timing of 150 ms is   *)
(* 150000.  One unit for every family keeps comparisons across families    *)
(* (the |diff| tie-break of sortBySeverity) those of the code.             *)
(***************************************************************************)
EXTENDS Integers, Sequences, FiniteSets, TLC

VARIABLES
    current,      \* compareMetrics: the `current` argument
    baseline,     \* compareMetrics: the `baseline` argument
    comparison,   \* compareMetrics: the returned ComparisonResult, or NoResult
    reports,      \* selectCurrentAndBaselineReports: the `reports` argument
    strategyArgs, \* ... and its optional trailing argument: <<>> or <<strategy>>
    pair,         \* ... and what it returned or threw, or NoResult
    strategyPercentile, \* getPercentileFromStrategy: what it returned, or NoResult
    directory,    \* the file system under <basePath>/.lighthouseci
    loaded,       \* loadLighthouseReports: what it returned or threw, or NoResult
    metricsSeries, \* buildPercentileBaselineMetrics: the `metricsSeries` argument
    percentile,   \* ... and its `percentile` argument
    synthetic,    \* ... and what the last call returned or threw, or NoResult
    lhr,          \* extractMetrics: the `lhr` argument
    extracted,    \* ... and the Metrics it returned, or NoResult
    givenOptions, \* analyze: the `options` argument
    loadOutcome,  \* ... what its call of loadLighthouseReports comes back with
    analysis,     \* ... and what analyze did and returned or threw, or NoResult
    argv,         \* lhci-ai analyze: the flags given on the command line
    configFile,   \* ... what the config file exports, <<>> if there is none
    processEnv,   \* ... the credentials set in the environment
    command,      \* ... the options it resolved and what it went on to do, or NoResult
    prComments,   \* postPRComment: the comments of the pull request, oldest first
    posts,        \* ... how many calls were made
    lastPost,     \* ... and what the last call was given, saw and did, or NoResult
    clientInstance,    \* ai/copilot.ts: the module's client, 0 for null
    clientInitPromise, \* ... and its initialization promise, 0 for null
    promises,     \* the initializations begun: how far each got and its client
    clients,      \* the CopilotClients constructed: the state of each
    calls,        \* the calls of getClient made: what each saw, awaits and got
    stopper,      \* stopCopilotClient: where a call of it stands
    stops         \* ... and how many calls of it were made

compareVars == <<current, baseline, comparison>>

selectVars == <<reports, strategyArgs, pair, strategyPercentile>>

loadVars == <<directory, loaded>>

baselineVars == <<metricsSeries, percentile, synthetic>>

extractVars == <<lhr, extracted>>

analyzeVars == <<givenOptions, loadOutcome, analysis>>

cliVars == <<argv, configFile, processEnv, command>>

commentVars == <<prComments, posts, lastPost>>

copilotVars == <<clientInstance, clientInitPromise, promises, clients, calls, stopper, stops>>

vars == <<compareVars, selectVars, loadVars, baselineVars, extractVars, analyzeVars, cliVars, commentVars, copilotVars>>

----------------------------------------------------------------------------
(* Arithmetic helpers *)

Abs(x) == IF x < 0 THEN -x ELSE x

Max(a, b) == IF a >= b THEN a ELSE b

\* n milliseconds (or n whole units) in fixed point
Ms(n) == n * 1000

NoResult == [none |-> TRUE]

----------------------------------------------------------------------------
(* src/metrics/comparator.ts *)

\* 0.02: 2 percentage points
SCORE_CHANGE_THRESHOLD == 20

\* absolute in fixed point; relative in percent (0.1 is 10, 0.15 is 15)
metricThresholds ==
    [ FCP |-> [absolute |-> Ms(100), relative |-> 10],
      LCP |-> [absolute |-> Ms(150), relative |-> 10],
      TBT |-> [absolute |-> Ms(50), relative |-> 15],
      CLS |-> [absolute |-> 20, relative |-> 15] ]
    @@ ("Speed Index" :> [absolute |-> Ms(200), relative |-> 10])
    @@ ("TTI" :> [absolute |-> Ms(200), relative |-> 10])

scoreKeys == <<"performance", "accessibility", "bestPractices", "seo">>

metricKeys == <<"fcp", "lcp", "tbt", "cls", "speedIndex", "tti">>

formatScoreKeyMapping ==
    [ performance |-> "Performance Score",
      accessibility |-> "Accessibility Score",
      bestPractices |-> "Best Practices Score",
      seo |-> "SEO Score" ]

\* mapping[key] ?? key
formatScoreKey(key) ==
    IF key \in DOMAIN formatScoreKeyMapping THEN formatScoreKeyMapping[key] ELSE key

formatMetricKeyMapping ==
    [ fcp |-> "FCP",
      lcp |-> "LCP",
      tbt |-> "TBT",
      cls |-> "CLS",
      speedIndex |-> "Speed Index",
      tti |-> "TTI" ]

\* mutant: the display name of speedIndex written without its space
formatMetricKey_noSpace(key) ==
    IF key = "speedIndex" THEN "SpeedIndex"
    ELSE IF key \in DOMAIN formatMetricKeyMapping THEN formatMetricKeyMapping[key] ELSE key

formatMetricKey(key) ==
    IF key \in DOMAIN formatMetricKeyMapping THEN formatMetricKeyMapping[key] ELSE key

\* (diff / base) * 100 as the fraction <<numerator, denominator>>
calculateDiffPercent(base, diff) ==
    IF base = 0
    THEN IF diff = 0 THEN <<0, 1>> ELSE IF diff > 0 THEN <<100, 1>> ELSE <<-100, 1>>
    ELSE <<diff * 100, base>>

\* mutant: the relative band alone, without the absolute floor
getMetricThreshold_relativeOnly(metric, base) ==
    IF metric \notin DOMAIN metricThresholds
    THEN 100 * Ms(100)
    ELSE Abs(base) * metricThresholds[metric].relative

\* 100 x the threshold of the code (the relative fractions are percents here)
getMetricThreshold(metric, base) ==
    IF metric \notin DOMAIN metricThresholds
    THEN 100 * Ms(100)
    ELSE LET threshold == metricThresholds[metric]
         IN  Max(100 * threshold.absolute, Abs(base) * threshold.relative)

\* mutant: the severity of a score follows the signed diff
getScoreSeverity_signed(diff) ==
    IF diff >= 200 THEN "critical"
    ELSE IF diff >= 100 THEN "high"
    ELSE IF diff >= 50 THEN "medium"
    ELSE "low"

getScoreSeverity(diff) ==
    LET absDiff == Abs(diff)
    IN  IF absDiff >= 200 THEN "critical"
        ELSE IF absDiff >= 100 THEN "high"
        ELSE IF absDiff >= 50 THEN "medium"
        ELSE "low"

getMetricSeverity(metric, diff) ==
    LET absDiff == Abs(diff)
    IN  IF metric = "CLS"
        THEN IF absDiff >= 100 THEN "critical"
             ELSE IF absDiff >= 50 THEN "high"
             ELSE IF absDiff >= 20 THEN "medium"
             ELSE "low"
        ELSE IF absDiff >= Ms(1000) THEN "critical"
             ELSE IF absDiff >= Ms(500) THEN "high"
             ELSE IF absDiff >= Ms(200) THEN "medium"
             ELSE "low"

\* mutant: the score band exclusive of its bounds
createScoreComparison_strict(metric, cur, base) ==
    LET diff == cur - base
    IN  [ metric |-> metric,
          base |-> base,
          current |-> cur,
          diff |-> diff,
          diffPercent |-> calculateDiffPercent(base, diff),
          isRegression |-> diff < -SCORE_CHANGE_THRESHOLD,
          isImprovement |-> diff > SCORE_CHANGE_THRESHOLD,
          severity |-> getScoreSeverity(diff) ]

createScoreComparison(metric, cur, base) ==
    LET diff == cur - base
    IN  [ metric |-> metric,
          base |-> base,
          current |-> cur,
          diff |-> diff,
          diffPercent |-> calculateDiffPercent(base, diff),
          isRegression |-> diff <= -SCORE_CHANGE_THRESHOLD,
          isImprovement |-> diff >= SCORE_CHANGE_THRESHOLD,
          severity |-> getScoreSeverity(diff) ]

\* mutant: no band, the sign of diff alone classifies
createMetricComparison_signOnly(metric, cur, base) ==
    LET diff == cur - base
    IN  [ metric |-> metric,
          base |-> base,
          current |-> cur,
          diff |-> diff,
          diffPercent |-> calculateDiffPercent(base, diff),
          isRegression |-> diff >= 0,
          isImprovement |-> diff <= 0,
          severity |-> getMetricSeverity(metric, diff) ]

createMetricComparison(metric, cur, base) ==
    LET diff == cur - base
        threshold == getMetricThreshold(metric, base)
    IN  [ metric |-> metric,
          base |-> base,
          current |-> cur,
          diff |-> diff,
          diffPercent |-> calculateDiffPercent(base, diff),
          isRegression |-> 100 * diff >= threshold,
          isImprovement |-> 100 * diff <= -threshold,
          severity |-> getMetricSeverity(metric, diff) ]

\* the keys of `keys`, in order, that both sides define
comparedKeys(keys, cur, base) ==
    SelectSeq(keys, LAMBDA key : key \in DOMAIN base /\ key \in DOMAIN cur)

\* mutant: a score missing on one side read as 0 (value ?? 0)
compareScores_defaultZero(cur, base) ==
    LET keys == SelectSeq(scoreKeys, LAMBDA key : key \in DOMAIN base \/ key \in DOMAIN cur)
        orZero(side, key) == IF key \in DOMAIN side THEN side[key] ELSE 0
    IN  [ i \in 1..Len(keys) |->
            createScoreComparison(formatScoreKey(keys[i]), orZero(cur, keys[i]),
                                  orZero(base, keys[i])) ]

compareScores(cur, base) ==
    LET keys == comparedKeys(scoreKeys, cur, base)
    IN  [ i \in 1..Len(keys) |->
            createScoreComparison(formatScoreKey(keys[i]), cur[keys[i]], base[keys[i]]) ]

compareCoreWebVitals(cur, base) ==
    LET keys == comparedKeys(metricKeys, cur, base)
    IN  [ i \in 1..Len(keys) |->
            createMetricComparison(formatMetricKey(keys[i]), cur[keys[i]], base[keys[i]]) ]

severityOrder == [critical |-> 0, high |-> 1, medium |-> 2, low |-> 3]

\* mutant: no tie-break by |diff|
severityCompare_noTieBreak(a, b) ==
    severityOrder[a.severity] - severityOrder[b.severity]

\* the comparator of sortBySeverity: a || b
severityCompare(a, b) ==
    LET bySeverity == severityOrder[a.severity] - severityOrder[b.severity]
    IN  IF bySeverity # 0 THEN bySeverity ELSE Abs(b.diff) - Abs(a.diff)

\* [...comparisons].sort(cmp): Array.prototype.sort is stable, so an entry's
\* place is the number of entries that sort before it, or tie with it and
\* stand before it
sortBySeverity(comparisons) ==
    LET n == Len(comparisons)
        place(i) == 1 + Cardinality({ j \in 1..n :
                        \/ severityCompare(comparisons[j], comparisons[i]) < 0
                        \/ /\ severityCompare(comparisons[j], comparisons[i]) = 0
                           /\ j < i })
    IN  [ p \in 1..n |-> comparisons[CHOOSE i \in 1..n : place(i) = p] ]

\* mutant: a missing performance score read as a full score
performanceOrZero_orOne(m) ==
    IF "performance" \in DOMAIN m.scores THEN m.scores["performance"] ELSE 1000

\* scores.performance ?? 0
performanceOrZero(m) ==
    IF "performance" \in DOMAIN m.scores THEN m.scores["performance"] ELSE 0

compareMetrics(cur, base) ==
    LET comparisons == compareScores(cur.scores, base.scores)
                         \o compareCoreWebVitals(cur.coreWebVitals, base.coreWebVitals)
        regressions == SelectSeq(comparisons, LAMBDA c : c.isRegression)
        improvements == SelectSeq(comparisons, LAMBDA c : c.isImprovement)
        unchanged == SelectSeq(comparisons, LAMBDA c : ~c.isRegression /\ ~c.isImprovement)
    IN  [ regressions |-> sortBySeverity(regressions),
          improvements |-> sortBySeverity(improvements),
          unchanged |-> unchanged,
          overallScore |->
            [ base |-> performanceOrZero(base),
              current |-> performanceOrZero(cur),
              diff |-> performanceOrZero(cur) - performanceOrZero(base) ] ]

----------------------------------------------------------------------------
(* src/metrics/loader.ts: the selector *)

(* A URL text is held by its parts, so that `new URL(raw)` and the regular  *)
(* expression /\/+$/ act on it as they do on the text.  A text that parses  *)
(* is origin, path without its trailing slashes, the number of trailing     *)
(* slashes, query and fragment; a text that does not parse is its           *)
(* characters without the trailing slashes, and their number.               *)
Url(origin, path, slashes, query, hash) ==
    [origin |-> origin, path |-> path, slashes |-> slashes, query |-> query, hash |-> hash]

PlainText(text, slashes) == [text |-> text, slashes |-> slashes]

EmptyText == PlainText("", 0)

\* new URL(raw) does not throw
ParsesAsUrl(raw) == "origin" \in DOMAIN raw

\* An LHReport is a record; an optional field that is not set is not in its
\* DOMAIN.  `id` stands for the identity of the object.
Field(report, name) == IF name \in DOMAIN report THEN <<report[name]>> ELSE <<>>

\* a || b || '' on optional texts: undefined and '' are falsy
FirstTruthy(options) ==
    LET truthy == SelectSeq(options, LAMBDA text : text # EmptyText)
    IN  IF Len(truthy) > 0 THEN truthy[1] ELSE EmptyText

\* parsed.pathname.replace(/\/+$/, '') || '/'
normalizedPath(parsed) == IF parsed.path = "" THEN "/" ELSE parsed.path

\* mutant: finalUrl before requestedUrl
normalizeReportUrl_finalFirst(report) ==
    LET raw == FirstTruthy(Field(report, "finalUrl") \o Field(report, "requestedUrl"))
    IN  IF ParsesAsUrl(raw)
        THEN raw.origin \o normalizedPath(raw)
        ELSE raw.text

normalizeReportUrl(report) ==
    LET raw == FirstTruthy(Field(report, "requestedUrl") \o Field(report, "finalUrl"))
    IN  IF ParsesAsUrl(raw)
        THEN raw.origin \o normalizedPath(raw)
        ELSE raw.text

LATEST == <<"l", "a", "t", "e", "s", "t">>

MEDIAN == <<"m", "e", "d", "i", "a", "n">>

SAME_URL == <<"s", "a", "m", "e", "-", "u", "r", "l">>

\* mutant: /^p(?:[1-9]\d|100)$/, the optional second digit made mandatory
isPercentileStrategy_twoDigits(strategy) ==
    /\ Len(strategy) >= 2
    /\ strategy[1] = "p"
    /\ LET digits == Tail(strategy)
       IN  \/ digits = <<"1", "0", "0">>
           \/ /\ Len(digits) = 2
              /\ digits[1] \in {"1", "2", "3", "4", "5", "6", "7", "8", "9"}
              /\ digits[2] \in {"0", "1", "2", "3", "4", "5", "6", "7", "8", "9"}

\* /^p(?:[1-9]\d?|100)$/.test(strategy)
isPercentileStrategy(strategy) ==
    /\ Len(strategy) >= 2
    /\ strategy[1] = "p"
    /\ LET digits == Tail(strategy)
       IN  \/ digits = <<"1", "0", "0">>
           \/ /\ Len(digits) <= 2
              /\ digits[1] \in {"1", "2", "3", "4", "5", "6", "7", "8", "9"}
              /\ Len(digits) = 2 =>
                   digits[2] \in {"0", "1", "2", "3", "4", "5", "6", "7", "8", "9"}

(* src/metrics/baseline.ts: the percentile a strategy names.  `undefined`  *)
(* is <<>> and a number n is <<n>>; so is a failed match and its groups.   *)

DecimalDigits == {"0", "1", "2", "3", "4", "5", "6", "7", "8", "9"}

DigitValue(char) ==
    (("0" :> 0) @@ ("1" :> 1) @@ ("2" :> 2) @@ ("3" :> 3) @@ ("4" :> 4)
       @@ ("5" :> 5) @@ ("6" :> 6) @@ ("7" :> 7) @@ ("8" :> 8) @@ ("9" :> 9))[char]

\* Number.parseInt(text, 10) of a text of decimal digits
RECURSIVE parseInt(_)
parseInt(text) ==
    IF Len(text) = 0 THEN 0
    ELSE 10 * parseInt(SubSeq(text, 1, Len(text) - 1)) + DigitValue(text[Len(text)])

\* mutant: /^p(\d\d?|100)$/, a leading zero let through
matchPercentile_anyDigit(strategy) ==
    IF Len(strategy) \in 2..4 /\ strategy[1] = "p"
    THEN LET group == Tail(strategy)
         IN  IF \/ group = <<"1", "0", "0">>
                \/ Len(group) <= 2 /\ \A i \in 1..Len(group) : group[i] \in DecimalDigits
             THEN <<group>>
             ELSE <<>>
    ELSE <<>>

\* strategy.match(/^p([1-9]\d?|100)$/): the captured group, if it matches
matchPercentile(strategy) ==
    IF Len(strategy) \in 2..4 /\ strategy[1] = "p"
    THEN LET group == Tail(strategy)
         IN  IF \/ /\ Len(group) <= 2
                   /\ group[1] \in DecimalDigits \ {"0"}
                   /\ \A i \in 2..Len(group) : group[i] \in DecimalDigits
                \/ group = <<"1", "0", "0">>
             THEN <<group>>
             ELSE <<>>
    ELSE <<>>

getPercentileFromStrategy(strategy) ==
    LET match == matchPercentile(strategy)
    IN  IF match = <<>> THEN <<>> ELSE <<parseInt(match[1])>>

\* historical.filter(report => normalizeReportUrl(report) === normalizeReportUrl(current))
sameUrlReports(cur, historical) ==
    SelectSeq(historical, LAMBDA report : normalizeReportUrl(report) = normalizeReportUrl(cur))

\* array.slice(0, 1)
FirstOnly(array) == SubSeq(array, 1, IF Len(array) >= 1 THEN 1 ELSE 0)

\* mutant: same-url falls back to all historical reports
getBaselineCandidates_fallbackAll(cur, historical, strategy) ==
    LET sameUrl == sameUrlReports(cur, historical)
    IN  IF Len(historical) = 0 THEN <<>>
        ELSE IF strategy = LATEST THEN FirstOnly(historical)
        ELSE IF Len(sameUrl) > 0 THEN sameUrl ELSE historical

\* mutant: no case for latest, which falls to the default case
getBaselineCandidates_noLatest(cur, historical, strategy) ==
    LET sameUrl == sameUrlReports(cur, historical)
    IN  IF Len(historical) = 0 THEN <<>>
        ELSE IF strategy = MEDIAN
             THEN IF Len(sameUrl) > 0 THEN sameUrl ELSE historical
        ELSE IF isPercentileStrategy(strategy)
             THEN IF Len(sameUrl) > 0 THEN sameUrl ELSE historical
        ELSE IF Len(sameUrl) > 0 THEN sameUrl ELSE FirstOnly(historical)

getBaselineCandidates(cur, historical, strategy) ==
    LET sameUrl == sameUrlReports(cur, historical)
    IN  IF Len(historical) = 0 THEN <<>>
        ELSE IF strategy = LATEST THEN FirstOnly(historical)
        ELSE IF strategy = MEDIAN
             THEN IF Len(sameUrl) > 0 THEN sameUrl ELSE historical
        ELSE IF isPercentileStrategy(strategy)
             THEN IF Len(sameUrl) > 0 THEN sameUrl ELSE historical
        ELSE IF Len(sameUrl) > 0 THEN sameUrl ELSE FirstOnly(historical)

Threw(message) == [threw |-> TRUE, message |-> message]

\* mutant: the candidates drawn from all reports, the current one included
selectCurrentAndBaselineReports_fromAll(reportList, args) ==
    LET strategy == IF Len(args) = 0 THEN SAME_URL ELSE args[1]
    IN  IF Len(reportList) = 0
        THEN Threw("At least one Lighthouse report is required")
        ELSE IF Len(reportList) = 1
        THEN [threw |-> FALSE, current |-> reportList[1], baselineCandidates |-> <<>>]
        ELSE LET baselineCandidates ==
                     getBaselineCandidates(reportList[1], reportList, strategy)
             IN  [ threw |-> FALSE, current |-> reportList[1],
                   baseline |-> baselineCandidates[1],
                   baselineCandidates |-> baselineCandidates ]

\* strategy: BaselineStrategy = 'same-url'
selectCurrentAndBaselineReports(reportList, args) ==
    LET strategy == IF Len(args) = 0 THEN SAME_URL ELSE args[1]
    IN  IF Len(reportList) = 0
        THEN Threw("At least one Lighthouse report is required")
        ELSE IF Len(reportList) = 1
        THEN [threw |-> FALSE, current |-> reportList[1], baselineCandidates |-> <<>>]
        ELSE LET baselineCandidates ==
                     getBaselineCandidates(reportList[1], Tail(reportList), strategy)
             IN  IF Len(baselineCandidates) = 0
                 THEN [ threw |-> FALSE, current |-> reportList[1],
                        baselineCandidates |-> baselineCandidates ]
                 ELSE [ threw |-> FALSE, current |-> reportList[1],
                        baseline |-> baselineCandidates[1],
                        baselineCandidates |-> baselineCandidates ]

\* no call of the comparator is under way
ComparatorIdle ==
    /\ current = [scores |-> <<>>, coreWebVitals |-> <<>>, opportunities |-> <<>>]
    /\ baseline = [scores |-> <<>>, coreWebVitals |-> <<>>, opportunities |-> <<>>]
    /\ comparison = NoResult

\* no call of the selector is under way
SelectorIdle ==
    /\ reports = <<>>
    /\ strategyArgs = <<>>
    /\ pair = NoResult
    /\ strategyPercentile = NoResult

\* no call of the loader is under way
LoaderIdle ==
    /\ directory = [exists |-> FALSE, files |-> <<>>]
    /\ loaded = NoResult

\* no baseline synthesis is under way
BaselineIdle ==
    /\ metricsSeries = <<>>
    /\ percentile = 50
    /\ synthetic = NoResult

\* no extraction is under way
ExtractorIdle ==
    /\ lhr = [categories |-> <<>>, audits |-> <<>>]
    /\ extracted = NoResult

\* no analysis is under way
AnalyzerIdle ==
    /\ givenOptions = <<>>
    /\ loadOutcome = NoResult
    /\ analysis = NoResult

\* no command is under way
CliIdle ==
    /\ argv = <<>>
    /\ configFile = <<>>
    /\ processEnv = <<>>
    /\ command = NoResult

\* no comment was posted
CommenterIdle ==
    /\ prComments = <<>>
    /\ posts = 0
    /\ lastPost = NoResult

\* the Copilot module was not used
CopilotIdle ==
    /\ clientInstance = 0
    /\ clientInitPromise = 0
    /\ promises = <<>>
    /\ clients = <<>>
    /\ calls = <<>>
    /\ stopper = "idle"
    /\ stops = 0

----------------------------------------------------------------------------
(* src/metrics/loader.ts: the loader *)

(* A file name is prefix, decimal stem and suffix, as LHCI writes them        *)
(* (lhr-1700000000000.json, lhr-1700000000000.html, manifest.json); its text  *)
(* is the three one after the other, and is compared by its character codes. *)
FileName(prefix, stem, suffix) == [prefix |-> prefix, stem |-> stem, suffix |-> suffix]

PrefixCodes ==
    [ manifest |-> <<109, 97, 110, 105, 102, 101, 115, 116>> ]
    @@ ("lhr-" :> <<108, 104, 114, 45>>)

SuffixCodes ==
    (".json" :> <<46, 106, 115, 111, 110>>) @@ (".html" :> <<46, 104, 116, 109, 108>>)

\* the UTF-16 code units of the name
NameCodes(file) ==
    PrefixCodes[file.prefix] \o [ i \in 1..Len(file.stem) |-> 48 + file.stem[i] ]
        \o SuffixCodes[file.suffix]

\* the order of two texts by their code units: negative, zero or positive
CompareCodes(a, b) ==
    LET shorter == IF Len(a) <= Len(b) THEN Len(a) ELSE Len(b)
        differ == { i \in 1..shorter : a[i] # b[i] }
    IN  IF differ = {}
        THEN Len(a) - Len(b)
        ELSE LET first == CHOOSE i \in differ : \A j \in differ : i <= j
             IN  a[first] - b[first]

\* a.localeCompare(b): on names of this alphabet (lower-case letters, digits,
\* '-' and '.') the collation order is that of the code units
localeCompare(a, b) == CompareCodes(NameCodes(a), NameCodes(b))

\* file.startsWith('lhr-') && file.endsWith('.json')
isReportFile(file) == file.prefix = "lhr-" /\ file.suffix = ".json"

\* names.sort(): by code units, and no two names of a directory are equal
sortNames(names) ==
    LET n == Len(names)
        place(i) == 1 + Cardinality({ j \in 1..n :
                        \/ CompareCodes(NameCodes(names[j]), NameCodes(names[i])) < 0
                        \/ /\ CompareCodes(NameCodes(names[j]), NameCodes(names[i])) = 0
                           /\ j < i })
    IN  [ p \in 1..n |-> names[CHOOSE i \in 1..n : place(i) = p] ]

(* The content of a file: text that JSON.parse rejects (or a file that cannot *)
(* be read), or the value JSON.parse returns: null, or a report object.       *)
Unparsable == [parses |-> FALSE]

Parsed(value) == [parses |-> TRUE, value |-> value]

JSON_NULL == [null |-> TRUE]

\* Date.parse on the fetch times of the model, in days since the epoch
\* (NaN for a text that is no date)
DateParse(value) ==
    IF value = "1970-01-01T00:00:00.000Z" THEN [finite |-> TRUE, time |-> 0]
    ELSE IF value = "2024-01-01T00:00:00.000Z" THEN [finite |-> TRUE, time |-> 19723]
    ELSE IF value = "2024-01-02T00:00:00.000Z" THEN [finite |-> TRUE, time |-> 19724]
    ELSE [finite |-> FALSE, time |-> 0]

\* parseTime(report.fetchTime)
parseTime(report) ==
    IF "fetchTime" \notin DOMAIN report \/ report.fetchTime = ""
    THEN 0
    ELSE LET parsed == DateParse(report.fetchTime)
         IN  IF parsed.finite THEN parsed.time ELSE 0

\* mutant: no tie-break by file name
recencyCompare_noTieBreak(a, b) ==
    LET aTime == parseTime(a.report)
        bTime == parseTime(b.report)
    IN  IF aTime # bTime THEN bTime - aTime ELSE 0

\* the comparator of sortReportsByRecency
recencyCompare(a, b) ==
    LET aTime == parseTime(a.report)
        bTime == parseTime(b.report)
    IN  IF aTime # bTime THEN bTime - aTime ELSE localeCompare(b.file, a.file)

\* reports.sort(cmp).map(entry => entry.report).  With two entries or more the
\* comparator reads a.report.fetchTime of every entry, which throws a
\* TypeError on a report that is null.
sortReportsByRecency(entries) ==
    LET n == Len(entries)
        place(i) == 1 + Cardinality({ j \in 1..n :
                        \/ recencyCompare(entries[j], entries[i]) < 0
                        \/ /\ recencyCompare(entries[j], entries[i]) = 0
                           /\ j < i })
    IN  IF n >= 2 /\ \E i \in 1..n : entries[i].report = JSON_NULL
        THEN Threw("TypeError: Cannot read properties of null (reading 'fetchTime')")
        ELSE [ threw |-> FALSE,
               reports |-> [ p \in 1..n |-> entries[CHOOSE i \in 1..n : place(i) = p].report ] ]

\* the loop over jsonFiles: a file that fails to read or parse is skipped
RECURSIVE readReports(_, _)
readReports(files, jsonFiles) ==
    IF Len(jsonFiles) = 0 THEN <<>>
    ELSE LET file == Head(jsonFiles)
             content == files[file]
         IN  (IF content.parses THEN <<[file |-> file, report |-> content.value]>> ELSE <<>>)
                 \o readReports(files, Tail(jsonFiles))

\* `listing` is what readdirSync returns: the names of the directory in an
\* order the file system chooses
loadLighthouseReports(dir, listing) ==
    IF ~dir.exists
    THEN Threw("No .lighthouseci directory found. Run lhci collect first to generate Lighthouse reports.")
    ELSE LET jsonFiles == sortNames(SelectSeq(listing, isReportFile))
         IN  IF Len(jsonFiles) = 0
             THEN Threw("No Lighthouse reports found in .lighthouseci. Run lhci collect first.")
             ELSE LET entries == readReports(dir.files, jsonFiles)
                  IN  IF Len(entries) = 0
                      THEN Threw("Failed to load any valid Lighthouse reports.")
                      ELSE sortReportsByRecency(entries)

----------------------------------------------------------------------------
(* Inputs of the comparator *)

Metrics(scores, coreWebVitals) ==
    [scores |-> scores, coreWebVitals |-> coreWebVitals, opportunities |-> <<>>]

SCORE_KEYS == {"performance", "accessibility", "bestPractices", "seo"}

VITAL_KEYS == {"fcp", "lcp", "tbt", "cls", "speedIndex", "tti"}

\* at most this many keys are present in a pair of several-key snapshots
MaxKeys == 3

\* one-key snapshots: the baseline values of each key ...
FineBases ==
    [ performance |-> {0, 500}, accessibility |-> {0, 500},
      bestPractices |-> {0, 500}, seo |-> {0, 500},
      fcp |-> {Ms(500), Ms(1005), Ms(2000)},
      lcp |-> {Ms(1000), Ms(3000)},
      tbt |-> {0, Ms(100), Ms(1000)},
      cls |-> {0, 100, 400},
      speedIndex |-> {Ms(1000), Ms(4000)},
      tti |-> {Ms(1000), Ms(4000)} ]

\* ... and the sizes of change tried around each: every classification
\* threshold and every severity bound met by these baselines
FineSteps ==
    [ performance |-> {20, 50, 100, 200}, accessibility |-> {20, 50, 100, 200},
      bestPractices |-> {20, 50, 100, 200}, seo |-> {20, 50, 100, 200},
      fcp |-> {Ms(100), 100500, Ms(200), Ms(500), Ms(1000)},
      lcp |-> {Ms(150), Ms(200), Ms(300), Ms(500), Ms(1000)},
      tbt |-> {Ms(50), Ms(150), Ms(200), Ms(500), Ms(1000)},
      cls |-> {20, 50, 60, 100},
      speedIndex |-> {Ms(200), Ms(400), Ms(500), Ms(1000)},
      tti |-> {Ms(200), Ms(400), Ms(500), Ms(1000)} ]

\* each step, one unit (0.001) less and one unit more, up and down, and no change
FineOffsets(key) ==
    {0} \cup { sign * (step + e) : sign \in {-1, 1}, step \in FineSteps[key], e \in {-1, 0, 1} }

OneKey(key, value) ==
    IF key \in SCORE_KEYS
    THEN Metrics(key :> value, <<>>)
    ELSE Metrics(<<>>, key :> value)

\* several-key snapshots: two values a key may take
CoarseValues ==
    [ performance |-> <<500, 550>>, accessibility |-> <<500, 700>>,
      bestPractices |-> <<500, 560>>, seo |-> <<500, 550>>,
      fcp |-> <<Ms(1500), Ms(1800)>>,
      lcp |-> <<Ms(2500), Ms(3700)>>,
      tbt |-> <<Ms(200), Ms(800)>>,
      cls |-> <<50, 110>>,
      speedIndex |-> <<Ms(3000), Ms(3600)>>,
      tti |-> <<Ms(3500), Ms(3750)>> ]

\* per key: which value current has and which baseline has, 0 for an absent
\* key: the same on both sides, a change either way, a key on one side only
CoarseChoices == {<<1, 1>>, <<1, 2>>, <<2, 1>>, <<2, 0>>, <<0, 1>>}

CoarseSide(keys, choice, side) ==
    LET part(family) ==
            [ key \in { k \in keys \cap family : choice[k][side] # 0 } |->
                CoarseValues[key][choice[key][side]] ]
    IN  Metrics(part(SCORE_KEYS), part(VITAL_KEYS))

\* the sets of at most MaxKeys keys
CoarseKeySets ==
    { ks \in SUBSET (SCORE_KEYS \cup VITAL_KEYS) : Cardinality(ks) <= MaxKeys }

----------------------------------------------------------------------------
(* The comparator as a state machine: a pair of snapshots is given, then      *)
(* compareMetrics is applied to it.                                           *)

\* one key, present on both sides, its change around every threshold
InitSingleKey ==
    \E key \in SCORE_KEYS \cup VITAL_KEYS :
        \E base \in FineBases[key], offset \in FineOffsets(key) :
            /\ base + offset >= 0
            /\ current = OneKey(key, base + offset)
            /\ baseline = OneKey(key, base)

\* at most MaxKeys keys, each present on one side or on both
InitMultiKey ==
    \E keys \in CoarseKeySets :
        \E choice \in [keys -> CoarseChoices] :
            /\ current = CoarseSide(keys, choice, 1)
            /\ baseline = CoarseSide(keys, choice, 2)

InitCompare ==
    /\ InitSingleKey \/ InitMultiKey
    /\ comparison = NoResult
    /\ SelectorIdle
    /\ LoaderIdle
    /\ BaselineIdle
    /\ ExtractorIdle
    /\ AnalyzerIdle
    /\ CliIdle
    /\ CommenterIdle
    /\ CopilotIdle

CompareMetrics ==
    /\ comparison = NoResult
    /\ comparison' = compareMetrics(current, baseline)
    /\ UNCHANGED <<current, baseline, selectVars, loadVars, baselineVars, extractVars, analyzeVars, cliVars, commentVars, copilotVars>>

NextCompare == CompareMetrics

SpecCompare == InitCompare /\ [][NextCompare]_vars

----------------------------------------------------------------------------
(* Inputs of the selector *)

\* at most this many reports are handed to the selector
MaxReports == 4

DashboardUrl == Url("https://example.com", "/dashboard", 0, "", "")

DashboardRunUrl == Url("https://example.com", "/dashboard", 0, "?run=1", "")

DashboardSlashUrl == Url("https://example.com", "/dashboard", 1, "", "")

HomeUrl == Url("https://example.com", "/home", 0, "", "")

\* the URL fields a report may carry: three reports of the dashboard under
\* three spellings, one of the home page, one whose URL text does not parse
UrlFields ==
    { [finalUrl |-> DashboardUrl],
      [requestedUrl |-> DashboardRunUrl, finalUrl |-> HomeUrl],
      [requestedUrl |-> EmptyText, finalUrl |-> DashboardSlashUrl],
      [finalUrl |-> HomeUrl],
      [finalUrl |-> PlainText("example.com/dashboard", 1)] }

\* a report object: its fields, and `id` for the identity of the object
Report(id, fields) == fields @@ [id |-> id]

Digit(d) == <<"0", "1", "2", "3", "4", "5", "6", "7", "8", "9">>[d + 1]

\* the decimal numeral of n, 0 <= n <= 999, without leading zeros
Numeral(n) ==
    IF n < 10 THEN <<Digit(n)>>
    ELSE IF n < 100 THEN <<Digit(n \div 10), Digit(n % 10)>>
    ELSE <<Digit(n \div 100), Digit((n \div 10) % 10), Digit(n % 10)>>

\* `p${n}`
PStrategy(n) == <<"p">> \o Numeral(n)

PercentileStrategies == { PStrategy(n) : n \in 1..100 }

\* strings that name no strategy
OtherStrategies ==
    { <<"p", "0">>, <<"p", "1", "0", "1">>, <<"p", "0", "5">>, <<"p">>, <<"P", "5", "0">>,
      <<"p", "5", "0", "0">>, <<"p", "1", "0", "0", "0">>, <<"5", "0">>, <<"p", "7", "5", "%">>,
      <<"p", "5", ".", "5">>, <<>> }

\* the optional argument: not passed, or one strategy
StrategyArgs ==
    {<<>>} \cup { <<strategy>> :
        strategy \in {LATEST, MEDIAN, SAME_URL} \cup PercentileStrategies \cup OtherStrategies }

\* at most this many reports of many URL spellings are handed to the selector
MaxUrlReports == 3

LoginUrl == Url("https://example.com", "/login", 0, "", "")

\* the spellings of the URL fields: the site root with and without its
\* slash; the dashboard with query, fragment and trailing slashes; a redirect
\* from the dashboard to the login page; the login page; the dashboard over
\* http; texts that do not parse; no URL at all
SpelledUrlFields ==
    { [finalUrl |-> Url("https://example.com", "", 0, "", "")],
      [finalUrl |-> Url("https://example.com", "", 1, "", "#top")],
      [finalUrl |-> Url("https://example.com", "/dashboard", 2, "?run=1", "#results")],
      [requestedUrl |-> DashboardUrl, finalUrl |-> LoginUrl],
      [finalUrl |-> LoginUrl],
      [requestedUrl |-> Url("http://example.com", "/dashboard", 0, "", ""),
       finalUrl |-> DashboardUrl],
      [finalUrl |-> PlainText("example.com/dashboard", 0)],
      [requestedUrl |-> PlainText("example.com/dashboard", 2),
       finalUrl |-> PlainText("example.com/login", 0)],
      [finalUrl |-> EmptyText] }

UrlStrategyArgs == { <<>>, <<SAME_URL>>, <<MEDIAN>>, <<PStrategy(75)>> }

----------------------------------------------------------------------------
(* The selector as a state machine: a report sequence and a strategy are    *)
(* given, then selectCurrentAndBaselineReports is applied to them.          *)

\* reports of few URL spellings, under every strategy
InitReportsOfFewUrls ==
    /\ \E n \in 0..MaxReports :
        \E urlFields \in [1..n -> UrlFields] :
            reports = [ i \in 1..n |->
                          Report(i, urlFields[i] @@ [fetchTime |-> "2024-01-01T00:00:00.000Z"]) ]
    /\ strategyArgs \in StrategyArgs

\* reports of many URL spellings, under the strategies that compare URLs
InitReportsOfManyUrls ==
    /\ \E n \in 0..MaxUrlReports :
        \E urlFields \in [1..n -> SpelledUrlFields] :
            reports = [ i \in 1..n |->
                          Report(i, urlFields[i] @@ [fetchTime |-> "2024-01-01T00:00:00.000Z"]) ]
    /\ strategyArgs \in UrlStrategyArgs

InitSelect ==
    /\ InitReportsOfFewUrls \/ InitReportsOfManyUrls
    /\ pair = NoResult
    /\ strategyPercentile = NoResult
    /\ ComparatorIdle
    /\ LoaderIdle
    /\ BaselineIdle
    /\ ExtractorIdle
    /\ AnalyzerIdle
    /\ CliIdle
    /\ CommenterIdle
    /\ CopilotIdle

SelectCurrentAndBaselineReports ==
    /\ pair = NoResult
    /\ pair' = selectCurrentAndBaselineReports(reports, strategyArgs)
    /\ UNCHANGED <<reports, strategyArgs, strategyPercentile, compareVars, loadVars, baselineVars, extractVars, analyzeVars, cliVars, commentVars, copilotVars>>

\* the strategy that was passed to the selector is parsed for its percentile
GetPercentileFromStrategy ==
    /\ strategyArgs # <<>>
    /\ strategyPercentile = NoResult
    /\ strategyPercentile' = [value |-> getPercentileFromStrategy(strategyArgs[1])]
    /\ UNCHANGED <<reports, strategyArgs, pair, compareVars, loadVars, baselineVars, extractVars, analyzeVars, cliVars, commentVars, copilotVars>>

NextSelect == SelectCurrentAndBaselineReports \/ GetPercentileFromStrategy

SpecSelect == InitSelect /\ [][NextSelect]_vars

----------------------------------------------------------------------------
(* Inputs of the loader *)

\* at most this many files are in the directory
MaxFiles == 3

\* lhr-1.json < lhr-10.json < lhr-2.json < lhr-9.json by code units
ReportFileNames ==
    { FileName("lhr-", stem, ".json") : stem \in {<<1>>, <<1, 0>>, <<2>>, <<9>>} }

\* files the loader is to pass over: manifest.json and lhr-1.html
OtherFiles ==
    [ name \in {FileName("manifest", <<>>, ".json"), FileName("lhr-", <<1>>, ".html")} |->
        IF name.suffix = ".json" THEN Parsed(Report(name, <<>>)) ELSE Unparsable ]

\* what a report file may hold: text that does not parse, null, or a report
\* whose fetchTime is missing, is no date, or is one of three dates
ReportFileContents(name) ==
    {Unparsable, Parsed(JSON_NULL), Parsed(Report(name, [finalUrl |-> DashboardUrl]))}
    \cup { Parsed(Report(name, [finalUrl |-> DashboardUrl, fetchTime |-> fetchTime])) :
             fetchTime \in { "not-a-date", "1970-01-01T00:00:00.000Z",
                             "2024-01-01T00:00:00.000Z", "2024-01-02T00:00:00.000Z" } }

\* the orders in which readdirSync may return the names
Listings(names) ==
    { listing \in [1..Cardinality(names) -> names] :
        \A i, j \in 1..Cardinality(names) : listing[i] = listing[j] => i = j }

----------------------------------------------------------------------------
(* The loader as a state machine: a directory is given, then                *)
(* loadLighthouseReports is called on it, any number of times.              *)

InitNoDirectory ==
    directory = [exists |-> FALSE, files |-> <<>>]

InitDirectory ==
    \E names \in SUBSET (ReportFileNames \cup DOMAIN OtherFiles) :
        /\ Cardinality(names) <= MaxFiles
        /\ \E contents \in [names \cap ReportFileNames -> UNION { ReportFileContents(n) : n \in names }] :
            /\ \A name \in names \cap ReportFileNames : contents[name] \in ReportFileContents(name)
            /\ directory =
                 [ exists |-> TRUE,
                   files |-> [ name \in names |->
                                 IF name \in ReportFileNames THEN contents[name]
                                 ELSE OtherFiles[name] ] ]

InitLoad ==
    /\ InitNoDirectory \/ InitDirectory
    /\ loaded = NoResult
    /\ ComparatorIdle
    /\ SelectorIdle
    /\ BaselineIdle
    /\ ExtractorIdle
    /\ AnalyzerIdle
    /\ CliIdle
    /\ CommenterIdle
    /\ CopilotIdle

LoadLighthouseReports ==
    /\ \E listing \in Listings(DOMAIN directory.files) :
        loaded' = loadLighthouseReports(directory, listing)
    /\ UNCHANGED <<directory, compareVars, selectVars, baselineVars, extractVars, analyzeVars, cliVars, commentVars, copilotVars>>

NextLoad == LoadLighthouseReports

SpecLoad == InitLoad /\ [][NextLoad]_vars

----------------------------------------------------------------------------
(* src/metrics/baseline.ts: a synthetic baseline from a series of snapshots *)

(* A percentile of integer values under an integer percentile is a multiple   *)
(* of 1/100 of the unit, so getPercentile and the Metrics built from it are   *)
(* counted in hundredths of the unit: 100 * value.  `undefined` is <<>> and   *)
(* a number v is <<v>>.                                                       *)

Min(a, b) == IF a <= b THEN a ELSE b

\* [...values].sort((a, b) => a - b)
sortAscending(values) ==
    LET n == Len(values)
        place(i) == 1 + Cardinality({ j \in 1..n :
                        \/ values[j] < values[i]
                        \/ values[j] = values[i] /\ j < i })
    IN  [ p \in 1..n |-> values[CHOOSE i \in 1..n : place(i) = p] ]

\* mutant: the values are taken in the order given
getPercentile_unsorted(values, pct) ==
    IF Len(values) = 0 THEN <<>>
    ELSE IF Len(values) = 1 THEN <<100 * values[1]>>
    ELSE LET bounded == Max(0, Min(100, pct))
             rank == bounded * (Len(values) - 1)
             lowerIndex == rank \div 100
             upperIndex == (rank + 99) \div 100
         IN  IF lowerIndex = upperIndex
             THEN <<100 * values[lowerIndex + 1]>>
             ELSE <<100 * values[lowerIndex + 1]
                      + (values[upperIndex + 1] - values[lowerIndex + 1]) * (rank - 100 * lowerIndex)>>

\* getPercentile(values, percentile), in hundredths; `rank` is 100 times the
\* rank of the code, and indices are from 0 as in the code
getPercentile(values, pct) ==
    IF Len(values) = 0 THEN <<>>
    ELSE LET sorted == sortAscending(values)
         IN  IF Len(sorted) = 1 THEN <<100 * sorted[1]>>
             ELSE LET bounded == Max(0, Min(100, pct))
                      rank == bounded * (Len(sorted) - 1)
                      lowerIndex == rank \div 100
                      upperIndex == (rank + 99) \div 100
                      lowerValue == sorted[lowerIndex + 1]
                      upperValue == sorted[upperIndex + 1]
                      weight == rank - 100 * lowerIndex
                  IN  IF lowerIndex = upperIndex
                      THEN <<100 * sorted[lowerIndex + 1]>>
                      ELSE <<100 * lowerValue + (upperValue - lowerValue) * weight>>

\* mutant: a snapshot without the key counts as 0
presentValues_defaultZero(series, family, key) ==
    [ i \in 1..Len(series) |->
        IF key \in DOMAIN series[i][family] THEN series[i][family][key] ELSE 0 ]

\* metricsSeries.map(entry => entry[family][key]).filter(value => value !== undefined)
presentValues(series, family, key) ==
    LET present == SelectSeq(series, LAMBDA entry : key \in DOMAIN entry[family])
    IN  [ i \in 1..Len(present) |-> present[i][family][key] ]

\* mutant: the vitals take the percentile of the scores
inversePercentile_direct(pct) == pct

\* const inversePercentile = 100 - percentile
inversePercentile(pct) == 100 - pct

\* mutant: 100 is refused
invalidPercentile_exclusive(pct) == pct <= 0 \/ pct >= 100

\* percentile <= 0 || percentile > 100
invalidPercentile(pct) == pct <= 0 \/ pct > 100

\* the keys of a family that get a value, with that value
aggregate(series, family, keys, pct) ==
    [ key \in { k \in keys : getPercentile(presentValues(series, family, k), pct) # <<>> } |->
        getPercentile(presentValues(series, family, key), pct)[1] ]

buildPercentileBaselineMetrics(series, pct) ==
    IF Len(series) = 0
    THEN Threw("At least one metrics snapshot is required for percentile baseline")
    ELSE IF invalidPercentile(pct)
    THEN Threw("Percentile must be between 1 and 100. Received: " \o ToString(pct))
    ELSE [ threw |-> FALSE,
           metrics |->
             [ scores |-> aggregate(series, "scores", SCORE_KEYS, pct),
               coreWebVitals |->
                   aggregate(series, "coreWebVitals", VITAL_KEYS, inversePercentile(pct)),
               opportunities |-> <<>> ] ]

buildMedianBaselineMetrics(series) == buildPercentileBaselineMetrics(series, 50)

----------------------------------------------------------------------------
(* Inputs of the baseline synthesis *)

\* at most this many snapshots are in a series of one-key snapshots
MaxSeries == 4

\* at most this many snapshots are in a series of two-key snapshots
MaxSnapshots == 3

\* the values a key may take in a snapshot
SeriesValues ==
    [ performance |-> <<700, 800, 900, 1000>>, accessibility |-> <<700, 800, 900, 1000>>,
      bestPractices |-> <<700, 800, 900, 1000>>, seo |-> <<700, 800, 900, 1000>>,
      fcp |-> <<Ms(1000), Ms(1200), Ms(1400), Ms(1600)>>,
      lcp |-> <<Ms(2000), Ms(2500), Ms(3000), Ms(4000)>>,
      tbt |-> <<0, Ms(100), Ms(300), Ms(600)>>,
      cls |-> <<0, 50, 100, 250>>,
      speedIndex |-> <<Ms(2000), Ms(3000), Ms(3400), Ms(5000)>>,
      tti |-> <<Ms(3000), Ms(3500), Ms(4000), Ms(6000)>> ]

\* the percentiles asked for over series of one-key snapshots: outside
\* (0, 100] on both sides, its two ends and p75 (the median builder asks for
\* the median itself)
Percentiles == {0, 1, 75, 100, 101}

\* a snapshot as the extractor builds it: scores, vitals and opportunities
Snapshot(scores, coreWebVitals, opportunities) ==
    [scores |-> scores, coreWebVitals |-> coreWebVitals, opportunities |-> opportunities]

\* a snapshot of the given keys; choice[key] is 0 for a key the snapshot lacks
\* and else the place of its value in SeriesValues
SnapshotOf(keys, choice, opportunities) ==
    LET part(family) ==
            [ key \in { k \in keys \cap family : choice[k] # 0 } |-> SeriesValues[key][choice[key]] ]
    IN  Snapshot(part(SCORE_KEYS), part(VITAL_KEYS), opportunities)

\* ... and those asked for over series of two-key snapshots
PairPercentiles == {-1, 50, 75}

\* the keys of the one-key series: a score, a timing and the layout shift
SingleKeys == {"performance", "fcp", "cls"}

\* the pairs of a score key and a vital key tried together
KeyPairs ==
    { {"performance", "fcp"}, {"seo", "cls"} }

----------------------------------------------------------------------------
(* The baseline synthesis as a state machine: a series and a percentile are *)
(* given, then the two builders are called on them, any number of times.    *)

\* one key, which each snapshot has with one of four values or lacks
InitSeriesOfOneKey ==
    \E key \in SingleKeys, n \in 0..MaxSeries :
        \E choices \in [1..n -> 0..4] :
            /\ metricsSeries = [ i \in 1..n |-> SnapshotOf({key}, key :> choices[i], <<>>) ]
            /\ percentile \in Percentiles

\* a score key and a vital key, each present or not in each snapshot, and
\* snapshots that carry an opportunity
InitSeriesOfTwoKeys ==
    \E keys \in KeyPairs, n \in 0..MaxSnapshots :
        \E choices \in [1..n -> [keys -> 0..2]] :
            /\ metricsSeries =
                [ i \in 1..n |->
                    SnapshotOf(keys, choices[i], <<[id |-> "render-blocking-resources"]>>) ]
            /\ percentile \in PairPercentiles

InitBaseline ==
    /\ InitSeriesOfOneKey \/ InitSeriesOfTwoKeys
    /\ synthetic = NoResult
    /\ ComparatorIdle
    /\ SelectorIdle
    /\ LoaderIdle
    /\ ExtractorIdle
    /\ AnalyzerIdle
    /\ CliIdle
    /\ CommenterIdle
    /\ CopilotIdle

BuildPercentileBaselineMetrics ==
    /\ synthetic' = [ call |-> "buildPercentileBaselineMetrics",
                      result |-> buildPercentileBaselineMetrics(metricsSeries, percentile) ]
    /\ UNCHANGED <<metricsSeries, percentile, compareVars, selectVars, loadVars, extractVars, analyzeVars, cliVars, commentVars, copilotVars>>

BuildMedianBaselineMetrics ==
    /\ synthetic' = [ call |-> "buildMedianBaselineMetrics",
                      result |-> buildMedianBaselineMetrics(metricsSeries) ]
    /\ UNCHANGED <<metricsSeries, percentile, compareVars, selectVars, loadVars, extractVars, analyzeVars, cliVars, commentVars, copilotVars>>

NextBaseline == BuildPercentileBaselineMetrics \/ BuildMedianBaselineMetrics

SpecBaseline == InitBaseline /\ [][NextBaseline]_vars

----------------------------------------------------------------------------
(* src/metrics/extractor.ts: the extractor *)

\* A report is [categories |-> c, audits |-> a]: c maps the category ids the
\* report has to [score |-> ...]; a is the sequence of [id |-> ...,
\* audit |-> ...] that Object.entries(lhr.audits) walks through. An audit has
\* title, description and score, and may have numericValue and details; a
\* score is <<>> for null and <<n>> for the number n; details has type and may have
\* overallSavingsMs and overallSavingsBytes.

\* lhr.categories[id]?.score ?? undefined
categoryScore(report, id) ==
    IF id \notin DOMAIN report.categories THEN <<>>
    ELSE report.categories[id].score

\* the category each score key is read from
scoreCategory ==
    [ performance |-> "performance", accessibility |-> "accessibility",
      bestPractices |-> "best-practices", seo |-> "seo" ]

extractScores(report) ==
    [ key \in { k \in DOMAIN scoreCategory : categoryScore(report, scoreCategory[k]) # <<>> } |->
        categoryScore(report, scoreCategory[key])[1] ]

\* lhr.audits[auditId]: <<>> when the report has no such audit
auditOf(report, auditId) ==
    LET at == { i \in 1..Len(report.audits) : report.audits[i].id = auditId }
    IN  IF at = {} THEN <<>> ELSE <<report.audits[CHOOSE i \in at : TRUE].audit>>

\* mutant: a vital that cannot be read counts as 0
getNumericValue_orZero(report, auditId) ==
    LET audit == auditOf(report, auditId)
    IN  IF audit = <<>> \/ "numericValue" \notin DOMAIN audit[1] THEN <<0>>
        ELSE <<audit[1].numericValue>>

getNumericValue(report, auditId) ==
    LET audit == auditOf(report, auditId)
    IN  IF audit = <<>> \/ "numericValue" \notin DOMAIN audit[1] THEN <<>>
        ELSE <<audit[1].numericValue>>

\* the audit each vital key is read from
vitalAudit ==
    [ fcp |-> "first-contentful-paint", lcp |-> "largest-contentful-paint",
      tbt |-> "total-blocking-time", cls |-> "cumulative-layout-shift",
      speedIndex |-> "speed-index", tti |-> "interactive" ]

extractCoreWebVitals(report) ==
    [ key \in { k \in DOMAIN vitalAudit : getNumericValue(report, vitalAudit[k]) # <<>> } |->
        getNumericValue(report, vitalAudit[key])[1] ]

\* audit.details?.type === 'opportunity' && audit.score !== null && audit.score !== 1
hasRoomForImprovement(audit) ==
    /\ "details" \in DOMAIN audit
    /\ audit.details.type = "opportunity"
    /\ audit.score # <<>>
    /\ audit.score # <<1000>>

\* the Opportunity pushed for an entry; a savings field the details lack is
\* undefined in the Opportunity too
opportunityOf(entry) ==
    LET details == entry.audit.details
        copied == [ id |-> entry.id, title |-> entry.audit.title,
                    description |-> entry.audit.description,
                    score |-> entry.audit.score[1] ]
        ms == IF "overallSavingsMs" \in DOMAIN details
                THEN [savingsMs |-> details.overallSavingsMs] ELSE <<>>
        bytes == IF "overallSavingsBytes" \in DOMAIN details
                THEN [savingsBytes |-> details.overallSavingsBytes] ELSE <<>>
    IN  copied @@ ms @@ bytes

\* mutant: an opportunity without savingsMs sorts first
savingsOrZero_orMost(opportunity) ==
    IF "savingsMs" \in DOMAIN opportunity /\ opportunity.savingsMs # 0
        THEN opportunity.savingsMs ELSE 1000000

\* a.savingsMs || 0
savingsOrZero(opportunity) ==
    IF "savingsMs" \in DOMAIN opportunity /\ opportunity.savingsMs # 0
        THEN opportunity.savingsMs ELSE 0

\* opportunities.sort((a, b) => savingsB - savingsA): stable, so an entry's
\* place is the number of entries with larger savings, or with equal savings
\* and standing before it
sortBySavings(opportunities) ==
    LET n == Len(opportunities)
        place(i) == 1 + Cardinality({ j \in 1..n :
                        \/ savingsOrZero(opportunities[j]) > savingsOrZero(opportunities[i])
                        \/ /\ savingsOrZero(opportunities[j]) = savingsOrZero(opportunities[i])
                           /\ j < i })
    IN  [ p \in 1..n |-> opportunities[CHOOSE i \in 1..n : place(i) = p] ]

extractOpportunities(report) ==
    LET kept == SelectSeq(report.audits, LAMBDA entry : hasRoomForImprovement(entry.audit))
    IN  sortBySavings([ i \in 1..Len(kept) |-> opportunityOf(kept[i]) ])

extractMetrics(report) ==
    [ scores |-> extractScores(report),
      coreWebVitals |-> extractCoreWebVitals(report),
      opportunities |-> extractOpportunities(report) ]

----------------------------------------------------------------------------
(* Inputs of the extractor *)

\* at most this many audits are candidates for an opportunity
MaxAudits == 3

CategoryIds == {"performance", "accessibility", "best-practices", "seo"}

\* a category is missing, or has a null score, or a score of 0, or of 0.9
CategoryChoices == {"missing", "null", "zero", "score"}

CategoryOf(choice) ==
    [ score |-> CASE choice = "null" -> <<>>
                  [] choice = "zero" -> <<0>>
                  [] OTHER -> <<900>> ]

VitalAuditIds ==
    << "first-contentful-paint", "largest-contentful-paint", "total-blocking-time",
       "cumulative-layout-shift", "speed-index", "interactive" >>

\* an audit is missing, or has no numericValue, or one of 0, or one of 1500
VitalChoices == {"missing", "unmeasured", "zero", "value"}

PlainAudit(score) == [title |-> "title", description |-> "description", score |-> score]

VitalAuditOf(choice) ==
    CASE choice = "unmeasured" -> PlainAudit(<<>>)
      [] choice = "zero" -> PlainAudit(<<1000>>) @@ [numericValue |-> 0]
      [] OTHER -> PlainAudit(<<900>>) @@ [numericValue |-> 1500]

OpportunityAuditIds ==
    { "render-blocking-resources", "unused-javascript", "uses-optimized-images",
      "server-response-time", "unminified-css" }

OpportunityDetails(savings) ==
    [details |-> [type |-> "opportunity"] @@ savings]

AuditShapes ==
    { PlainAudit(<<500>>),
      PlainAudit(<<500>>) @@ [details |-> [type |-> "table", overallSavingsMs |-> 300]],
      PlainAudit(<<>>) @@ OpportunityDetails([overallSavingsMs |-> 300]),
      PlainAudit(<<1000>>) @@ OpportunityDetails([overallSavingsMs |-> 300]),
      PlainAudit(<<500>>) @@ OpportunityDetails([overallSavingsBytes |-> 2048]),
      PlainAudit(<<0>>) @@ OpportunityDetails([overallSavingsMs |-> 0]),
      PlainAudit(<<500>>) @@ OpportunityDetails([overallSavingsMs |-> 150]),
      PlainAudit(<<900>>) @@ OpportunityDetails([overallSavingsMs |-> 300, overallSavingsBytes |-> 1024]) }

\* a report of categories only
InitCategories ==
    \E choice \in [CategoryIds -> CategoryChoices] :
        lhr = [ categories |-> [ id \in { c \in CategoryIds : choice[c] # "missing" } |->
                                    CategoryOf(choice[id]) ],
                audits |-> <<>> ]

\* a report of a performance category, the audits the vitals are read from,
\* and one opportunity
InitVitalAudits ==
    \E choice \in [1..Len(VitalAuditIds) -> VitalChoices] :
        LET entries == [ i \in 1..Len(VitalAuditIds) |->
                            [id |-> VitalAuditIds[i], audit |-> VitalAuditOf(choice[i])] ]
        IN  \E performance \in CategoryChoices \ {"missing"} :
            lhr = [ categories |-> [ id \in {"performance"} |-> CategoryOf(performance) ],
                    audits |-> SelectSeq(entries, LAMBDA e : choice[CHOOSE i \in 1..Len(VitalAuditIds) : VitalAuditIds[i] = e.id] # "missing")
                                 \o << [ id |-> "render-blocking-resources",
                                         audit |-> PlainAudit(<<500>>) @@ OpportunityDetails([overallSavingsMs |-> 500]) ] >> ]

\* a report of up to MaxAudits audits of any shape, in any order
InitOpportunityAudits ==
    \E n \in 0..MaxAudits :
        \E ids \in [1..n -> OpportunityAuditIds] :
            /\ \A i, j \in 1..n : ids[i] = ids[j] => i = j
            /\ \E shapes \in [1..n -> AuditShapes] :
                lhr = [ categories |-> <<>>,
                        audits |-> [ i \in 1..n |-> [id |-> ids[i], audit |-> shapes[i]] ] ]

InitExtract ==
    /\ InitCategories \/ InitVitalAudits \/ InitOpportunityAudits
    /\ extracted = NoResult
    /\ ComparatorIdle
    /\ SelectorIdle
    /\ LoaderIdle
    /\ BaselineIdle
    /\ AnalyzerIdle
    /\ CliIdle
    /\ CommenterIdle
    /\ CopilotIdle

\* extractMetrics(lhr); the report is only read
ExtractMetrics ==
    /\ extracted = NoResult
    /\ extracted' = [given |-> lhr, metrics |-> extractMetrics(lhr)]
    /\ UNCHANGED <<lhr, compareVars, selectVars, loadVars, baselineVars, analyzeVars, cliVars, commentVars, copilotVars>>

NextExtract == ExtractMetrics

SpecExtract == InitExtract /\ [][NextExtract]_vars

----------------------------------------------------------------------------
(* src/analyzer.ts: the analysis orchestrator *)

\* An AnalyzeOptions is modelled by what analyze reads of it: provider and
\* output, whether githubToken and openaiKey are set, the flags autoFix and
\* postComment, and whether `options.repo || getRepoFromEnv()` and
\* `options.prNumber || getPRNumberFromEnv()` are truthy (repoKnown, prKnown).
\* What the network answers is the `env` of a run: env.diff for fetchPRDiff,
\* env.ai for the provider, env.post for postPRComment.

\* metrics.scores.performance || 0
performanceOrFalsy(metrics) ==
    IF "performance" \in DOMAIN metrics.scores /\ metrics.scores["performance"] # 0
        THEN metrics.scores["performance"] ELSE 0

createMockComparison(metrics) ==
    [ regressions |-> <<>>,
      improvements |-> <<>>,
      unchanged |-> <<>>,
      overallScore |-> [ base |-> performanceOrFalsy(metrics),
                         current |-> performanceOrFalsy(metrics),
                         diff |-> 0 ] ]

\* reports[reports.length - 1]
baselineReport(reportList) == reportList[Len(reportList)]

\* mutant: a single report compared with itself
comparisonOf_compareAlways(reportList) ==
    compareMetrics(extractMetrics(reportList[1]),
                   extractMetrics(baselineReport(reportList)))

\* Step 3 of analyze
comparisonOf(reportList) ==
    IF Len(reportList) > 1
        THEN compareMetrics(extractMetrics(reportList[1]),
                            extractMetrics(baselineReport(reportList)))
        ELSE createMockComparison(extractMetrics(reportList[1]))

fetchCodeDiff(opts, env) ==
    IF ~opts.repoKnown THEN Threw("GitHub repository not specified")
    ELSE IF ~opts.prKnown THEN Threw("PR number not specified")
    ELSE IF env.diff = "failed" THEN Threw("fetchPRDiff failed")
    ELSE [threw |-> FALSE, files |-> <<"src/app.tsx">>]

\* the local heuristic analysis hands back the changes it was given
analyzeLocally(data) ==
    [ summary |-> "local heuristics",
      regressions |-> data.regressions,
      improvements |-> data.improvements ]

\* mutant: openai is called without a key
runAIAnalysis_keyless(opts, comparisonResult, metrics, env) ==
    LET local == analyzeLocally([ regressions |-> comparisonResult.regressions,
                                  improvements |-> comparisonResult.improvements,
                                  opportunities |-> metrics.opportunities ])
        parsed == [ summary |-> "AI response",
                    regressions |-> comparisonResult.regressions,
                    improvements |-> comparisonResult.improvements ]
    IN  CASE opts.provider = "copilot" ->
                IF env.ai = "failed" THEN Threw("Copilot error")
                ELSE [threw |-> FALSE, result |-> parsed]
          [] opts.provider = "openai" ->
                IF env.ai = "failed" THEN Threw("OpenAI error")
                ELSE [threw |-> FALSE, result |-> parsed]
          [] OTHER -> [threw |-> FALSE, result |-> local]

runAIAnalysis(opts, comparisonResult, metrics, env) ==
    LET local == analyzeLocally([ regressions |-> comparisonResult.regressions,
                                  improvements |-> comparisonResult.improvements,
                                  opportunities |-> metrics.opportunities ])
        parsed == [ summary |-> "AI response",
                    regressions |-> comparisonResult.regressions,
                    improvements |-> comparisonResult.improvements ]
    IN  CASE opts.provider = "copilot" ->
                IF env.ai = "failed" THEN Threw("Copilot error")
                ELSE [threw |-> FALSE, result |-> parsed]
          [] opts.provider = "openai" ->
                IF ~opts.openaiKey THEN Threw("OpenAI API key required")
                ELSE IF env.ai = "failed" THEN Threw("OpenAI error")
                ELSE [threw |-> FALSE, result |-> parsed]
          [] OTHER -> [threw |-> FALSE, result |-> local]

postComment(opts, env) ==
    IF ~opts.githubToken THEN Threw("GitHub token required to post comments")
    ELSE IF ~opts.repoKnown \/ ~opts.prKnown
        THEN Threw("Repository and PR number required to post comments")
    ELSE IF env.post = "failed" THEN Threw("postPRComment failed")
    ELSE [threw |-> FALSE]

\* analyze(options): `steps` is what the run did, in order
analyze(opts, load, env) ==
    IF load.threw
    THEN [threw |-> TRUE, message |-> load.message, steps |-> <<"fail: Analysis failed">>]
    ELSE
    LET reportList == load.reports
        currentMetrics == extractMetrics(reportList[1])
        comparisonResult == comparisonOf(reportList)
        \* Step 4
        diff == IF opts.githubToken THEN fetchCodeDiff(opts, env) ELSE Threw("not fetched")
        hasDiff == ~diff.threw
        step4 == IF ~opts.githubToken THEN <<>>
                 ELSE IF hasDiff THEN <<"code diff fetched">>
                 ELSE <<"warn: could not fetch code diff">>
        \* Step 5
        ai == runAIAnalysis(opts, comparisonResult, currentMetrics, env)
        analysed == IF ai.threw
                     THEN analyzeLocally([ regressions |-> comparisonResult.regressions,
                                           improvements |-> comparisonResult.improvements,
                                           opportunities |-> currentMetrics.opportunities ])
                     ELSE ai.result
        step5 == IF ai.threw THEN <<"warn: AI analysis failed, using local heuristics">>
                 ELSE <<"AI analysis complete">>
        \* Step 6
        fixing == opts.autoFix /\ hasDiff
        result == IF fixing THEN analysed @@ [autoFixes |-> <<>>] ELSE analysed
        step6 == IF fixing THEN <<"auto-fixes generated">> ELSE <<>>
        \* Step 7
        step7 == <<"output: " \o opts.output>>
        \* Step 8
        step8 == IF opts.postComment /\ opts.githubToken
                 THEN IF postComment(opts, env).threw
                      THEN <<"fail: failed to post comment">>
                      ELSE <<"comment posted">>
                 ELSE <<>>
    IN  [ threw |-> FALSE,
          result |-> result,
          comparison |-> comparisonResult,
          steps |-> <<"reports loaded">> \o step4 \o step5 \o step6 \o step7 \o step8 ]

----------------------------------------------------------------------------
(* Inputs of the analysis *)

\* at most this many reports are loaded for an analysis
MaxLoaded == 3

\* a page measured fast, slow, or without a performance score
Profiles ==
    { [score |-> <<900>>, lcp |-> Ms(2000)],
      [score |-> <<500>>, lcp |-> Ms(3000)],
      [score |-> <<>>, lcp |-> Ms(2000)],
      [score |-> <<0>>, lcp |-> Ms(3000)] }

LoadedReport(id, url, profile) ==
    [ id |-> id,
      finalUrl |-> url,
      fetchTime |-> "2024-01-01T00:00:00.000Z",
      categories |-> [ c \in {"performance"} |-> [score |-> profile.score] ],
      audits |-> << [ id |-> "largest-contentful-paint",
                      audit |-> PlainAudit(<<900>>) @@ [numericValue |-> profile.lcp] ] >> ]

Providers == {"copilot", "openai", "local"}

OutputFormats == {"terminal", "json", "markdown"}

AnalyzeOptions ==
    [ provider : Providers, output : OutputFormats, githubToken : BOOLEAN,
      openaiKey : BOOLEAN, autoFix : BOOLEAN, postComment : BOOLEAN,
      repoKnown : BOOLEAN, prKnown : BOOLEAN ]

PlainOptions ==
    [ provider |-> "local", output |-> "terminal", githubToken |-> FALSE,
      openaiKey |-> FALSE, autoFix |-> FALSE, postComment |-> FALSE,
      repoKnown |-> FALSE, prKnown |-> FALSE ]

Environments ==
    [ diff : {"fetched", "failed"}, ai : {"answered", "failed"}, post : {"posted", "failed"} ]

\* the load fails
InitLoadFails ==
    /\ givenOptions = PlainOptions
    /\ loadOutcome = Threw("Failed to load any valid Lighthouse reports.")

\* up to MaxLoaded reports of two pages, analysed with plain options
InitLoadedReports ==
    /\ givenOptions = PlainOptions
    /\ \E n \in 1..MaxLoaded :
        \E url \in [1..n -> {DashboardUrl, HomeUrl}] :
            \E profile \in [1..n -> Profiles] :
                loadOutcome = [ threw |-> FALSE,
                                reports |-> [ i \in 1..n |-> LoadedReport(i, url[i], profile[i]) ] ]

\* one report, or two with a score that fell and a paint that got faster,
\* analysed with any options
InitOptions ==
    /\ givenOptions \in AnalyzeOptions
    /\ \E n \in 1..2 :
        loadOutcome = [ threw |-> FALSE,
                        reports |-> [ i \in 1..n |->
                            LoadedReport(i, DashboardUrl,
                                [score |-> <<400 + 100 * i>>, lcp |-> Ms(1000 + 1000 * i)]) ] ]

InitAnalyze ==
    /\ InitLoadFails \/ InitLoadedReports \/ InitOptions
    /\ analysis = NoResult
    /\ ComparatorIdle
    /\ SelectorIdle
    /\ LoaderIdle
    /\ BaselineIdle
    /\ ExtractorIdle
    /\ CliIdle
    /\ CommenterIdle
    /\ CopilotIdle

Analyze ==
    /\ analysis = NoResult
    /\ \E env \in Environments :
        analysis' = analyze(givenOptions, loadOutcome, env)
    /\ UNCHANGED <<givenOptions, loadOutcome, compareVars, selectVars, loadVars, baselineVars, extractVars, cliVars, commentVars, copilotVars>>

NextAnalyze == Analyze

SpecAnalyze == InitAnalyze /\ [][NextAnalyze]_vars

----------------------------------------------------------------------------
(* src/cli.ts and src/config.ts: the analyze command *)

\* argv maps the flags given to their values ("true" for a flag without
\* value); configFile is the object the config file exports, or <<>>;
\* processEnv maps the variables that are set to their values. The booleans
\* of these three are written "true" and "false".

validateProvider(value) ==
    IF value \in {"copilot", "openai", "local"} THEN <<value>> ELSE <<>>

validateOutputFormat(value) ==
    IF value \in {"terminal", "json", "markdown"} THEN <<value>> ELSE <<>>

\* normalizeConfig, as far as the command reads its result: the fields of
\* `ai` that hold a valid value
normalizeConfig(raw) ==
    IF "ai" \notin DOMAIN raw THEN <<>>
    ELSE LET ai == raw.ai
             kept == { key \in DOMAIN ai :
                        \/ key = "provider" /\ validateProvider(ai[key]) # <<>>
                        \/ key = "outputFormat" /\ validateOutputFormat(ai[key]) # <<>>
                        \/ key \in {"autoFix", "githubToken", "openaiKey"} }
         IN  [ai |-> [key \in kept |-> ai[key]]]

\* config.ai?.[key]: <<>> when undefined
configValue(config, key) ==
    IF "ai" \in DOMAIN config /\ key \in DOMAIN config.ai THEN <<config.ai[key]>> ELSE <<>>

\* commander: the options object handed to the action; an option declared
\* with a default value holds it when its flag is not given
parseOptions(args) ==
    args @@ [ provider |-> "local", autoFix |-> "false", interactive |-> "false",
              postComment |-> "false", output |-> "terminal" ]

\* process.env.GITHUB_TOKEN || process.env.GH_TOKEN || config.ai?.githubToken
getGitHubToken(config, env) ==
    \/ "GITHUB_TOKEN" \in DOMAIN env
    \/ "GH_TOKEN" \in DOMAIN env
    \/ configValue(config, "githubToken") # <<>>

\* process.env.OPENAI_API_KEY || config.ai?.openaiKey
getOpenAIKey(config, env) ==
    \/ "OPENAI_API_KEY" \in DOMAIN env
    \/ configValue(config, "openaiKey") # <<>>

\* a || b || c over strings that are not empty, and a ?? b ?? c: the first
\* of a and b that is defined, else c
FirstDefined(a, b, c) == IF a # <<>> THEN a[1] ELSE IF b # <<>> THEN b[1] ELSE c

\* the options object the action builds
resolveOptions(cliOptions, config, env) ==
    LET given(key) == IF key \in DOMAIN cliOptions THEN <<cliOptions[key]>> ELSE <<>>
    IN  [ provider |-> FirstDefined(given("provider"), configValue(config, "provider"), "local"),
          githubToken |-> ("githubToken" \in DOMAIN cliOptions) \/ getGitHubToken(config, env),
          openaiKey |-> ("openaiKey" \in DOMAIN cliOptions) \/ getOpenAIKey(config, env),
          autoFix |-> FirstDefined(given("autoFix"), configValue(config, "autoFix"), "false"),
          interactive |-> FirstDefined(given("interactive"), <<>>, "false"),
          postComment |-> FirstDefined(given("postComment"), <<>>, "false"),
          output |-> FirstDefined(given("output"), configValue(config, "outputFormat"), "terminal") ]

\* the action of the analyze command, up to its call of analyze
analyzeCommand(args, raw, env) ==
    LET resolved == resolveOptions(parseOptions(args), normalizeConfig(raw), env)
    IN  [ options |-> resolved,
          went |-> IF resolved.provider = "openai" /\ ~resolved.openaiKey
                     THEN "exit 1: OpenAI API key required for OpenAI provider"
                   ELSE IF resolved.postComment = "true" /\ ~resolved.githubToken
                     THEN "exit 1: GitHub token required to post PR comments"
                   ELSE "analyze" ]

----------------------------------------------------------------------------
(* Inputs of the analyze command *)

\* the records that set any of the fields of `fields` to one of its values
Partial(fields) ==
    UNION { [keys -> UNION { fields[k] : k \in keys }] : keys \in SUBSET DOMAIN fields }

WellTyped(record, fields) == \A k \in DOMAIN record : record[k] \in fields[k]

SomeOf(fields) == { record \in Partial(fields) : WellTyped(record, fields) }

SettingFlags ==
    SomeOf([ provider |-> {"copilot", "openai", "local"},
             autoFix |-> {"true"},
             output |-> {"terminal", "json", "markdown"} ])

SettingConfigs ==
    {<<>>} \cup
    { [ai |-> ai] : ai \in SomeOf([ provider |-> {"copilot", "openai", "local", "gpt"},
                                    autoFix |-> {"true", "false"},
                                    outputFormat |-> {"terminal", "json", "markdown"} ]) }

CredentialFlags ==
    SomeOf([ provider |-> {"openai"}, postComment |-> {"true"},
             githubToken |-> {"ghp_flag"}, openaiKey |-> {"sk-flag"} ])

CredentialConfigs ==
    { [ai |-> ai] : ai \in SomeOf([ provider |-> {"openai"}, githubToken |-> {"ghp_config"},
                                    openaiKey |-> {"sk-config"} ]) }

CredentialEnvs ==
    SomeOf([GITHUB_TOKEN |-> {"ghp_env"}, GH_TOKEN |-> {"ghp_env"}, OPENAI_API_KEY |-> {"sk-env"}])

\* flags and config file set provider, autoFix and output; no credentials
InitSettings ==
    /\ argv \in SettingFlags
    /\ configFile \in SettingConfigs
    /\ processEnv = <<>>

\* credentials come from flags, environment and config file
InitCredentials ==
    /\ argv \in CredentialFlags
    /\ configFile \in CredentialConfigs
    /\ processEnv \in CredentialEnvs

InitCli ==
    /\ InitSettings \/ InitCredentials
    /\ command = NoResult
    /\ ComparatorIdle
    /\ SelectorIdle
    /\ LoaderIdle
    /\ BaselineIdle
    /\ ExtractorIdle
    /\ AnalyzerIdle
    /\ CommenterIdle
    /\ CopilotIdle

AnalyzeCommand ==
    /\ command = NoResult
    /\ command' = analyzeCommand(argv, configFile, processEnv)
    /\ UNCHANGED <<argv, configFile, processEnv, compareVars, selectVars, loadVars, baselineVars, extractVars, analyzeVars, commentVars, copilotVars>>

NextCli == AnalyzeCommand

SpecCli == InitCli /\ [][NextCli]_vars

----------------------------------------------------------------------------
(* src/github/pr-commenter.ts: the comment on the pull request *)

\* A comment is [id |-> n, body |-> b]; a body is the sequence of its pieces
\* of text, so that `includes` is a search and the template a concatenation.

COMMENT_MARKER == "<!-- lhci-ai-assistant -->"

\* comment.body?.includes(COMMENT_MARKER)
includesMarker(comment) ==
    \E i \in 1..Len(comment.body) : comment.body[i] = COMMENT_MARKER

\* the comments one GET of .../issues/<pr>/comments answers with: the request
\* names no page, and GitHub then sends the oldest PER_PAGE comments
PER_PAGE == 30

firstPage(comments) == SubSeq(comments, 1, Min(Len(comments), PER_PAGE))

\* <<>> for null
findExistingComment(comments, listOk) ==
    IF ~listOk THEN <<>>
    ELSE LET at == { i \in 1..Len(firstPage(comments)) : includesMarker(comments[i]) }
         IN  IF at = {} THEN <<>>
             ELSE <<comments[CHOOSE i \in at : \A j \in at : i <= j].id>>

\* the body sent by createComment and by updateComment
markedBody(body) == <<COMMENT_MARKER, "\n">> \o body

createComment(comments, body, writeOk) ==
    IF ~writeOk THEN [threw |-> TRUE, message |-> "Failed to create comment", comments |-> comments]
    ELSE [ threw |-> FALSE, id |-> Len(comments) + 1, did |-> "created",
           comments |-> Append(comments, [id |-> Len(comments) + 1, body |-> markedBody(body)]) ]

updateComment(comments, commentId, body, writeOk) ==
    IF ~writeOk THEN [threw |-> TRUE, message |-> "Failed to update comment", comments |-> comments]
    ELSE [ threw |-> FALSE, id |-> commentId, did |-> "updated",
           comments |-> [ i \in 1..Len(comments) |->
                            IF comments[i].id = commentId
                                THEN [id |-> commentId, body |-> markedBody(body)]
                                ELSE comments[i] ] ]

postPRComment(comments, body, listOk, writeOk) ==
    LET existingComment == findExistingComment(comments, listOk)
    IN  IF existingComment # <<>>
            THEN updateComment(comments, existingComment[1], body, writeOk)
            ELSE createComment(comments, body, writeOk)

----------------------------------------------------------------------------
(* Inputs of the commenter *)

\* at most this many calls of postPRComment are made on the pull request
MaxPosts == 3

\* the comments made by people before the first call
EarlierComments == {0, 1, PER_PAGE - 1, PER_PAGE}

Bodies == { <<"## Lighthouse: 2 regressions">>, <<"## Lighthouse: no change">> }

InitComment ==
    /\ \E n \in EarlierComments : prComments = [ i \in 1..n |-> [id |-> i, body |-> <<"LGTM">>] ]
    /\ posts = 0
    /\ lastPost = NoResult
    /\ ComparatorIdle
    /\ SelectorIdle
    /\ LoaderIdle
    /\ BaselineIdle
    /\ ExtractorIdle
    /\ AnalyzerIdle
    /\ CliIdle
    /\ CopilotIdle

\* one call of postPRComment, from its first request to its return or throw
PostPRComment ==
    /\ posts < MaxPosts
    /\ \E body \in Bodies, listOk \in BOOLEAN, writeOk \in BOOLEAN :
        LET outcome == postPRComment(prComments, body, listOk, writeOk)
        IN  /\ prComments' = outcome.comments
            /\ lastPost' = [ body |-> body,
                             marked |-> { prComments[i].id : i \in { j \in 1..Len(prComments) : includesMarker(prComments[j]) } },
                             threw |-> outcome.threw,
                             did |-> IF outcome.threw THEN "nothing" ELSE outcome.did ]
    /\ posts' = posts + 1
    /\ UNCHANGED <<compareVars, selectVars, loadVars, baselineVars, extractVars, analyzeVars, cliVars, copilotVars>>

NextComment == PostPRComment

SpecComment == InitComment /\ [][NextComment]_vars

----------------------------------------------------------------------------
(* src/ai/copilot.ts: the Copilot client singleton *)

\* Clients and promises are numbered in the order they are made; 0 stands
\* for null. A promise is [state |-> "pending" | "resolved" | "rejected",
\* stage |-> where its initialization stands, client |-> the client it
\* constructed, or 0]. Calls run to their next await without interruption.

\* clientInstance && clientInstance.getState() === 'connected'
instanceConnected == clientInstance # 0 /\ clients[clientInstance] = "connected"

\* what a call of getClient finds in the module's two variables
foundState ==
    [ instance |-> IF clientInstance = 0 THEN "null" ELSE clients[clientInstance],
      promise |-> IF clientInitPromise = 0 THEN "null" ELSE promises[clientInitPromise].state ]

\* mutant: every call that finds no connected client initializes one
reusesInitPromise_never == FALSE

\* if (clientInitPromise) return clientInitPromise
reusesInitPromise == clientInitPromise # 0

\* getClient() up to its return: the caller awaits the promise it got
\* (promise 0: the promise of an async function that returned clientInstance)
GetClient(caller) ==
    /\ \/ /\ instanceConnected
          /\ calls' = Append(calls, [ caller |-> caller, pc |-> "awaiting", promise |-> 0,
                                      client |-> clientInstance, found |-> foundState,
                                      started |-> FALSE ])
          /\ UNCHANGED <<clientInitPromise, promises>>
       \/ /\ ~instanceConnected
          /\ reusesInitPromise
          /\ calls' = Append(calls, [ caller |-> caller, pc |-> "awaiting",
                                      promise |-> clientInitPromise,
                                      client |-> 0, found |-> foundState,
                                      started |-> FALSE ])
          /\ UNCHANGED <<clientInitPromise, promises>>
       \/ /\ ~instanceConnected
          /\ ~reusesInitPromise
          /\ promises' = Append(promises, [state |-> "pending", stage |-> "importSDK", client |-> 0])
          /\ clientInitPromise' = Len(promises) + 1
          /\ calls' = Append(calls, [ caller |-> caller, pc |-> "awaiting",
                                      promise |-> Len(promises) + 1,
                                      client |-> 0, found |-> foundState,
                                      started |-> TRUE ])
    /\ UNCHANGED <<clientInstance, clients, stopper, stops>>

\* await importSDK() settles: new CopilotClient(...), client.start() begins
ImportSDK(p, ok) ==
    /\ promises[p].stage = "importSDK"
    /\ IF ok
        THEN /\ clients' = Append(clients, "starting")
             /\ promises' = [promises EXCEPT ![p].stage = "client.start",
                                             ![p].client = Len(clients) + 1]
        ELSE /\ promises' = [promises EXCEPT ![p].stage = "done", ![p].state = "rejected"]
             /\ UNCHANGED clients
    /\ UNCHANGED <<clientInstance, clientInitPromise, calls, stopper, stops>>

\* await client.start() settles: clientInstance = client; return client
ClientStart(p, ok) ==
    /\ promises[p].stage = "client.start"
    /\ IF ok
        THEN /\ clients' = [clients EXCEPT ![promises[p].client] = "connected"]
             /\ clientInstance' = promises[p].client
             /\ promises' = [promises EXCEPT ![p].stage = "done", ![p].state = "resolved"]
        ELSE /\ clients' = [clients EXCEPT ![promises[p].client] = "error"]
             /\ promises' = [promises EXCEPT ![p].stage = "done", ![p].state = "rejected"]
             /\ UNCHANGED clientInstance
    /\ UNCHANGED <<clientInitPromise, calls, stopper, stops>>

\* `await getClient()` resumes in analyzeWithCopilot, checkCopilotAccess or
\* listCopilotModels: with the client, or with the rejection
Resume(i) ==
    /\ calls[i].pc = "awaiting"
    /\ \/ /\ calls[i].promise = 0
          /\ calls' = [calls EXCEPT ![i].pc = "has client"]
       \/ /\ calls[i].promise # 0
          /\ promises[calls[i].promise].state = "resolved"
          /\ calls' = [calls EXCEPT ![i].pc = "has client",
                                    ![i].client = promises[calls[i].promise].client]
       \/ /\ calls[i].promise # 0
          /\ promises[calls[i].promise].state = "rejected"
          /\ calls' = [calls EXCEPT ![i].pc = "rejected"]
    /\ UNCHANGED <<clientInstance, clientInitPromise, promises, clients, stopper, stops>>

\* the connection of a client drops, or comes back (autoRestart)
ConnectionChanges(k) ==
    /\ clients[k] \in {"connected", "disconnected"}
    /\ clients' = [clients EXCEPT ![k] = IF @ = "connected" THEN "disconnected" ELSE "connected"]
    /\ UNCHANGED <<clientInstance, clientInitPromise, promises, calls, stopper, stops>>

\* stopCopilotClient() up to its await of stop(), or to its end if there is
\* no clientInstance
StopCopilotClient ==
    /\ stopper = "idle"
    /\ IF clientInstance # 0
        THEN stopper' = "stopping" /\ stops' = stops
        ELSE stopper' = "idle" /\ stops' = stops + 1
    /\ UNCHANGED <<clientInstance, clientInitPromise, promises, clients, calls>>

\* stop() or forceStop() settles; finally both variables are reset
StopSettles ==
    /\ stopper = "stopping"
    /\ clients' = [clients EXCEPT ![clientInstance] = "stopped"]
    /\ clientInstance' = 0
    /\ clientInitPromise' = 0
    /\ stopper' = "idle"
    /\ stops' = stops + 1
    /\ UNCHANGED <<promises, calls>>

----------------------------------------------------------------------------
(* Inputs of the Copilot client *)

\* at most this many calls of getClient are made
MaxCalls == 3

\* at most this many calls of stopCopilotClient are made
MaxStops == 1

\* the functions that call getClient
Callers == {"analyzeWithCopilot", "checkCopilotAccess", "listCopilotModels"}

InitCopilot ==
    /\ clientInstance = 0
    /\ clientInitPromise = 0
    /\ promises = <<>>
    /\ clients = <<>>
    /\ calls = <<>>
    /\ stopper = "idle"
    /\ stops = 0
    /\ ComparatorIdle
    /\ SelectorIdle
    /\ LoaderIdle
    /\ BaselineIdle
    /\ ExtractorIdle
    /\ AnalyzerIdle
    /\ CliIdle
    /\ CommenterIdle

Others == <<compareVars, selectVars, loadVars, baselineVars, extractVars, analyzeVars, cliVars, commentVars>>

NextCopilot ==
    \/ /\ Len(calls) < MaxCalls
       /\ \E caller \in Callers : GetClient(caller)
       /\ UNCHANGED Others
    \/ /\ \E p \in 1..Len(promises), ok \in BOOLEAN : ImportSDK(p, ok)
       /\ UNCHANGED Others
    \/ /\ \E p \in 1..Len(promises), ok \in BOOLEAN : ClientStart(p, ok)
       /\ UNCHANGED Others
    \/ /\ \E i \in 1..Len(calls) : Resume(i)
       /\ UNCHANGED Others
    \/ /\ \E k \in 1..Len(clients) : ConnectionChanges(k)
       /\ UNCHANGED Others
    \/ /\ stops < MaxStops
       /\ StopCopilotClient
       /\ UNCHANGED Others
    \/ /\ StopSettles
       /\ UNCHANGED Others

SpecCopilot == InitCopilot /\ [][NextCopilot]_vars







----------------------------------------------------------------------------
(* Properties of the comparator, checked under SpecCompare *)

Compared == comparison # NoResult

\* every comparison of the result: the three lists one after the other
Emitted == comparison.regressions \o comparison.improvements \o comparison.unchanged

InList(list, name) == \E i \in 1..Len(list) : list[i].metric = name

Occurrences(list, name) == Cardinality({ i \in 1..Len(list) : list[i].metric = name })

BothSides(cur, base) == DOMAIN cur \cap DOMAIN base

\* C1: a score key present on both sides has diff = current - base and is a
\* regression iff diff <= -0.02, an improvement iff diff >= +0.02 (both
\* inclusive), and unchanged for any smaller change.
C1_ScoreClassification ==
    Compared =>
        \A key \in BothSides(current.scores, baseline.scores) :
            LET diff == current.scores[key] - baseline.scores[key]
                name == formatScoreKey(key)
            IN  /\ InList(Emitted, name)
                /\ \A i \in 1..Len(Emitted) :
                    Emitted[i].metric = name =>
                        /\ Emitted[i].diff = diff
                        /\ Emitted[i].isRegression <=> (diff <= -20)
                        /\ Emitted[i].isImprovement <=> (diff >= 20)
                /\ InList(comparison.regressions, name) <=> (diff <= -20)
                /\ InList(comparison.improvements, name) <=> (diff >= 20)
                /\ InList(comparison.unchanged, name) <=> (-20 < diff /\ diff < 20)

\* a performance drop of exactly 0.02 is reported as a regression
C1_Witness ==
    /\ Compared
    /\ \E i \in 1..Len(comparison.regressions) :
        /\ comparison.regressions[i].metric = "Performance Score"
        /\ comparison.regressions[i].diff = -20

\* the pairs of C2: the absolute floor (fixed point) and the relative percent
ClaimedBand ==
    [ fcp |-> <<100000, 10>>, lcp |-> <<150000, 10>>, tbt |-> <<50000, 15>>,
      cls |-> <<20, 15>>, speedIndex |-> <<200000, 10>>, tti |-> <<200000, 10>> ]

\* diff >= max(floor, percent/100 x |base|), with both sides times 100
AtLeastBand(key, base, diff) ==
    /\ 100 * diff >= 100 * ClaimedBand[key][1]
    /\ 100 * diff >= ClaimedBand[key][2] * Abs(base)

\* C2: a Core Web Vital present on both sides is a regression iff
\* diff >= T and an improvement iff diff <= -T, where T is the larger of the
\* metric's own absolute floor and its relative fraction of |base|; the
\* fallback threshold is never used.
C2_VitalClassification ==
    Compared =>
        \A key \in BothSides(current.coreWebVitals, baseline.coreWebVitals) :
            LET base == baseline.coreWebVitals[key]
                diff == current.coreWebVitals[key] - base
                name == formatMetricKey(key)
            IN  /\ InList(Emitted, name)
                /\ \A i \in 1..Len(Emitted) :
                    Emitted[i].metric = name =>
                        /\ Emitted[i].diff = diff
                        /\ Emitted[i].isRegression <=> AtLeastBand(key, base, diff)
                        /\ Emitted[i].isImprovement <=> AtLeastBand(key, base, -diff)
                /\ InList(comparison.regressions, name) <=> AtLeastBand(key, base, diff)
                /\ InList(comparison.improvements, name) <=> AtLeastBand(key, base, -diff)

\* Speed Index 4000 ms -> 4400 ms: exactly the relative band, a regression
C2_Witness ==
    /\ Compared
    /\ \E i \in 1..Len(comparison.regressions) :
        /\ comparison.regressions[i].metric = "Speed Index"
        /\ comparison.regressions[i].base = 4000000
        /\ comparison.regressions[i].diff = 400000

\* C3: no comparison is both a regression and an improvement.
C3_MutuallyExclusive ==
    Compared =>
        \A i \in 1..Len(Emitted) :
            ~(Emitted[i].isRegression /\ Emitted[i].isImprovement)

\* one result with a regression, an improvement and an unchanged entry
C3_Witness ==
    /\ Compared
    /\ \E i \in 1..Len(comparison.regressions) :
        comparison.regressions[i].isRegression /\ ~comparison.regressions[i].isImprovement
    /\ \E i \in 1..Len(comparison.improvements) :
        comparison.improvements[i].isImprovement /\ ~comparison.improvements[i].isRegression
    /\ \E i \in 1..Len(comparison.unchanged) :
        ~comparison.unchanged[i].isImprovement /\ ~comparison.unchanged[i].isRegression

\* C4: one comparison for each key present on both sides, none for a key
\* absent on either side, each in exactly one of the three lists, and each
\* carrying the two values the snapshots hold for its key.
C4_OnlyKeysOnBothSides ==
    Compared =>
      LET emitted == Emitted
      IN
        /\ \A key \in SCORE_KEYS :
            /\ Occurrences(emitted, formatScoreKey(key)) =
                 IF key \in BothSides(current.scores, baseline.scores) THEN 1 ELSE 0
            /\ \A i \in 1..Len(emitted) :
                emitted[i].metric = formatScoreKey(key) =>
                    /\ emitted[i].base = baseline.scores[key]
                    /\ emitted[i].current = current.scores[key]
        /\ \A key \in VITAL_KEYS :
            /\ Occurrences(emitted, formatMetricKey(key)) =
                 IF key \in BothSides(current.coreWebVitals, baseline.coreWebVitals)
                 THEN 1 ELSE 0
            /\ \A i \in 1..Len(emitted) :
                emitted[i].metric = formatMetricKey(key) =>
                    /\ emitted[i].base = baseline.coreWebVitals[key]
                    /\ emitted[i].current = current.coreWebVitals[key]
        /\ Len(emitted) =
             Cardinality(BothSides(current.scores, baseline.scores))
               + Cardinality(BothSides(current.coreWebVitals, baseline.coreWebVitals))

\* a key only in current, a key only in baseline, and one comparison emitted
C4_Witness ==
    /\ Compared
    /\ DOMAIN current.scores \ DOMAIN baseline.scores # {}
    /\ DOMAIN baseline.coreWebVitals \ DOMAIN current.coreWebVitals # {}
    /\ Len(Emitted) = 1

----------------------------------------------------------------------------
(* Properties of the selector, checked under SpecSelect *)

Selected == pair # NoResult

\* the strategy in force: same-url when none is passed
StrategyInForce == IF strategyArgs = <<>> THEN SAME_URL ELSE strategyArgs[1]

\* the places, after the first, of the reports with the URL of the first
SameUrlPlaces ==
    { i \in 2..Len(reports) : normalizeReportUrl(reports[i]) = normalizeReportUrl(reports[1]) }

\* the reports at `places`, in the order of the sequence
ReportsAt(places) ==
    [ k \in 1..Cardinality(places) |->
        reports[CHOOSE i \in places : Cardinality({ j \in places : j < i }) = k - 1] ]

\* C5: under same-url, and with no strategy passed, two reports or more give
\* as candidates all historical reports with the URL of the current one, in
\* recency order, or else the one most recent historical report; baseline is
\* the first candidate.
C5_SameUrlSelection ==
    (Selected /\ StrategyInForce = SAME_URL /\ Len(reports) >= 2) =>
        /\ pair.baselineCandidates =
             IF SameUrlPlaces # {} THEN ReportsAt(SameUrlPlaces) ELSE <<reports[2]>>
        /\ pair.baseline =
             IF SameUrlPlaces # {}
             THEN reports[CHOOSE i \in SameUrlPlaces : \A j \in SameUrlPlaces : i <= j]
             ELSE reports[2]

\* no strategy passed, dashboard / home / dashboard: baseline is the third
\* report, not the more recent report of the other URL
C5_Witness ==
    /\ Selected
    /\ strategyArgs = <<>>
    /\ Len(reports) = 3
    /\ reports[1].finalUrl = DashboardUrl /\ "requestedUrl" \notin DOMAIN reports[1]
    /\ reports[2].finalUrl = HomeUrl /\ "requestedUrl" \notin DOMAIN reports[2]
    /\ pair.baseline = reports[3]
    /\ pair.baselineCandidates = <<reports[3]>>

\* C6: under median and under p1 .. p100, two reports or more give as
\* candidates all historical reports with the URL of the current one, in
\* recency order, or else all historical reports; baseline is the first
\* candidate.
C6_SeriesSelection ==
    (Selected /\ StrategyInForce \in {MEDIAN} \cup PercentileStrategies /\ Len(reports) >= 2) =>
        /\ pair.baselineCandidates =
             IF SameUrlPlaces # {} THEN ReportsAt(SameUrlPlaces) ELSE Tail(reports)
        /\ pair.baseline = pair.baselineCandidates[1]

\* p7 with three historical reports, none of the URL of the current one: all
\* three are candidates
C6_Witness ==
    /\ Selected
    /\ strategyArgs = <<PStrategy(7)>>
    /\ Len(reports) = 4
    /\ SameUrlPlaces = {}
    /\ pair.baselineCandidates = <<reports[2], reports[3], reports[4]>>
    /\ pair.baseline = reports[2]

\* C7: under latest, two reports or more give the second report as the only
\* candidate and as baseline, whatever the URLs.
C7_LatestSelection ==
    (Selected /\ StrategyInForce = LATEST /\ Len(reports) >= 2) =>
        /\ pair.baselineCandidates = <<reports[2]>>
        /\ pair.baseline = reports[2]

\* latest, where the second report has another URL and the third has the URL
\* of the current one
C7_Witness ==
    /\ Selected
    /\ strategyArgs = <<LATEST>>
    /\ Len(reports) = 3
    /\ SameUrlPlaces = {3}
    /\ pair.baseline = reports[2]

\* C8: the selector fails iff there is no report; otherwise current is the
\* first report; there is no baseline and no candidate iff there is exactly
\* one report; with two or more the candidates are not empty, are historical
\* reports in their original order, and baseline is the first of them.
C8_PairShape ==
    Selected =>
        /\ pair.threw <=> (Len(reports) = 0)
        /\ ~pair.threw =>
            /\ pair.current = reports[1]
            /\ ("baseline" \notin DOMAIN pair /\ pair.baselineCandidates = <<>>)
                 <=> (Len(reports) = 1)
            /\ Len(reports) >= 2 =>
                /\ Len(pair.baselineCandidates) >= 1
                /\ \A k \in 1..Len(pair.baselineCandidates) :
                    /\ pair.baselineCandidates[k].id \in 2..Len(reports)
                    /\ pair.baselineCandidates[k] = reports[pair.baselineCandidates[k].id]
                /\ \A k \in 1..(Len(pair.baselineCandidates) - 1) :
                    pair.baselineCandidates[k].id < pair.baselineCandidates[k + 1].id
                /\ "baseline" \in DOMAIN pair
                /\ pair.baseline = pair.baselineCandidates[1]

\* one report: a pair with no baseline and no candidate
C8_Witness ==
    /\ Selected
    /\ Len(reports) = 1
    /\ ~pair.threw
    /\ pair.current = reports[1]
    /\ "baseline" \notin DOMAIN pair
    /\ pair.baselineCandidates = <<>>

----------------------------------------------------------------------------
(* Properties of the loader, checked under SpecLoad *)

Loaded == loaded # NoResult

\* the report files of the directory
CandidateFiles == { name \in DOMAIN directory.files : isReportFile(name) }

\* ... those that parse
ParsedFiles == { name \in CandidateFiles : directory.files[name].parses }

\* ... and those that hold a report object
ObjectFiles == { name \in ParsedFiles : directory.files[name].value # JSON_NULL }

\* report a comes before report b: a later fetch time, or the same and the
\* greater file name
Precedes(a, b) ==
    \/ parseTime(a) > parseTime(b)
    \/ /\ parseTime(a) = parseTime(b)
       /\ CompareCodes(NameCodes(a.id), NameCodes(b.id)) > 0

\* C9: the reports of the files that parse are returned by fetch time
\* descending, a missing or unparsable time counting as 0, and by file name
\* descending among equal times: one order, whatever the order in which the
\* directory is listed and however often the loader is called.
C9_RecencyOrder ==
    (Loaded /\ ~loaded.threw /\ ParsedFiles = ObjectFiles) =>
        /\ Len(loaded.reports) = Cardinality(ObjectFiles)
        /\ \A name \in ObjectFiles :
            \E p \in 1..Len(loaded.reports) : loaded.reports[p] = directory.files[name].value
        /\ \A p, q \in 1..Len(loaded.reports) :
            p < q => Precedes(loaded.reports[p], loaded.reports[q])

\* a dated report first, then two reports counted at time 0, one with a
\* fetchTime that is no date and one with none, lhr-2.json before lhr-10.json
C9_Witness ==
    /\ Loaded
    /\ ~loaded.threw
    /\ Len(loaded.reports) = 3
    /\ \A p \in 1..3 : loaded.reports[p] # JSON_NULL
    /\ loaded.reports[1].id = FileName("lhr-", <<1>>, ".json")
    /\ loaded.reports[2].id = FileName("lhr-", <<2>>, ".json")
    /\ loaded.reports[3].id = FileName("lhr-", <<1, 0>>, ".json")
    /\ "fetchTime" \in DOMAIN loaded.reports[2]
    /\ loaded.reports[2].fetchTime = "not-a-date"
    /\ "fetchTime" \notin DOMAIN loaded.reports[3]

\* C10: the loader raises an error, and returns nothing, when the directory
\* does not exist, when it holds no lhr-*.json file, and when every such file
\* fails to parse; in every other case it returns a sequence that is not empty.
C10_ErrorsExactly ==
    Loaded =>
        IF ~directory.exists
        THEN loaded = Threw("No .lighthouseci directory found. Run lhci collect first to generate Lighthouse reports.")
        ELSE IF CandidateFiles = {}
        THEN loaded = Threw("No Lighthouse reports found in .lighthouseci. Run lhci collect first.")
        ELSE IF ParsedFiles = {}
        THEN loaded = Threw("Failed to load any valid Lighthouse reports.")
        ELSE ~loaded.threw /\ Len(loaded.reports) >= 1

\* C11: when at least one report file parses, the loader succeeds and returns
\* exactly the values of the report files that parsed, each once; the files
\* that fail are skipped, wherever they fall in the read order.
C11_FailureIsolation ==
    (Loaded /\ directory.exists /\ ParsedFiles # {}) =>
        /\ ~loaded.threw
        /\ Len(loaded.reports) = Cardinality(ParsedFiles)
        /\ \A name \in ParsedFiles :
            Cardinality({ p \in 1..Len(loaded.reports) :
                            loaded.reports[p] = directory.files[name].value })
              = Cardinality({ other \in ParsedFiles :
                            directory.files[other].value = directory.files[name].value })

----------------------------------------------------------------------------
(* Properties of the baseline synthesis, checked under SpecBaseline *)

Built == synthetic # NoResult

BuiltByPercentile == Built /\ synthetic.call = "buildPercentileBaselineMetrics"

BuiltByMedian == Built /\ synthetic.call = "buildMedianBaselineMetrics"

FamilyOf(key) == IF key \in SCORE_KEYS THEN "scores" ELSE "coreWebVitals"

\* the snapshots of the series that have the key
SnapshotsWith(key) ==
    { i \in 1..Len(metricsSeries) : key \in DOMAIN metricsSeries[i][FamilyOf(key)] }

ValueAt(key, i) == metricsSeries[i][FamilyOf(key)][key]

\* the k-th smallest of the key's present values, k from 1
OrderStatistic(key, k) ==
    CHOOSE v \in { ValueAt(key, i) : i \in SnapshotsWith(key) } :
        /\ Cardinality({ i \in SnapshotsWith(key) : ValueAt(key, i) < v }) < k
        /\ Cardinality({ i \in SnapshotsWith(key) : ValueAt(key, i) <= v }) >= k

\* the linear-interpolation estimate of the p-th percentile of the key's
\* present values, in hundredths: rank = (p/100)(n - 1), counted from 0
Estimate(key, p) ==
    LET n == Cardinality(SnapshotsWith(key))
        whole == (p * (n - 1)) \div 100
        part == (p * (n - 1)) % 100
    IN  IF part = 0
        THEN 100 * OrderStatistic(key, whole + 1)
        ELSE 100 * OrderStatistic(key, whole + 1)
               + (OrderStatistic(key, whole + 2) - OrderStatistic(key, whole + 1)) * part

\* the p the builder was called with
AskedPercentile == IF BuiltByMedian THEN 50 ELSE percentile

\* C12: for a series that is not empty and a percentile p in (0, 100], each
\* score key gets the p-th percentile of its present values and each vital
\* key the (100 - p)-th; p100 gives the greatest score and the least vital.
C12_DirectionAware ==
    (BuiltByPercentile /\ Len(metricsSeries) > 0 /\ percentile \in 1..100) =>
        /\ ~synthetic.result.threw
        /\ \A key \in SCORE_KEYS :
            SnapshotsWith(key) # {} =>
                /\ key \in DOMAIN synthetic.result.metrics.scores
                /\ synthetic.result.metrics.scores[key] = Estimate(key, percentile)
                /\ percentile = 100 =>
                     \A i \in SnapshotsWith(key) :
                        synthetic.result.metrics.scores[key] >= 100 * ValueAt(key, i)
        /\ \A key \in VITAL_KEYS :
            SnapshotsWith(key) # {} =>
                /\ key \in DOMAIN synthetic.result.metrics.coreWebVitals
                /\ synthetic.result.metrics.coreWebVitals[key] = Estimate(key, 100 - percentile)
                /\ percentile = 100 =>
                     \A i \in SnapshotsWith(key) :
                        synthetic.result.metrics.coreWebVitals[key] <= 100 * ValueAt(key, i)

\* p75 over the timings 1000, 1400, 1200 and 1600 ms gives 1150 ms
C12_Witness ==
    /\ BuiltByPercentile
    /\ percentile = 75
    /\ Len(metricsSeries) = 4
    /\ \A i \in 1..4 : "fcp" \in DOMAIN metricsSeries[i].coreWebVitals
    /\ [ i \in 1..4 |-> metricsSeries[i].coreWebVitals.fcp ]
         = <<Ms(1000), Ms(1400), Ms(1200), Ms(1600)>>
    /\ ~synthetic.result.threw
    /\ synthetic.result.metrics.coreWebVitals.fcp = 100 * Ms(1150)

\* the percentile the builder hands to getPercentile for the key
PercentileFor(key) ==
    IF key \in SCORE_KEYS THEN AskedPercentile ELSE 100 - AskedPercentile

\* what the builder returned for the key
BuiltValue(key) == synthetic.result.metrics[FamilyOf(key)][key]

\* C13: the percentile of the values of a key is the linear-interpolation
\* estimate over the values sorted ascending, whatever the order of the
\* series; one value is returned as it is for every p; the median builder
\* returns the middle value of an odd number of values and the midpoint of
\* the two middle values of an even number, for scores and vitals alike.
C13_InterpolatedPercentile ==
    (Built /\ ~synthetic.result.threw) =>
        \A key \in SCORE_KEYS \cup VITAL_KEYS :
            LET n == Cardinality(SnapshotsWith(key))
            IN  n > 0 =>
                  /\ BuiltValue(key) = Estimate(key, PercentileFor(key))
                  /\ n = 1 => \A i \in SnapshotsWith(key) : BuiltValue(key) = 100 * ValueAt(key, i)
                  /\ (BuiltByMedian /\ n % 2 = 1) =>
                        BuiltValue(key) = 100 * OrderStatistic(key, (n + 1) \div 2)
                  /\ (BuiltByMedian /\ n % 2 = 0) =>
                        BuiltValue(key) =
                            50 * (OrderStatistic(key, n \div 2) + OrderStatistic(key, n \div 2 + 1))

\* the median of the scores 0.8, 0.9, 0.7 and 1.0, given in this order, is 0.85
C13_Witness ==
    /\ BuiltByMedian
    /\ Len(metricsSeries) = 4
    /\ \A i \in 1..4 : "performance" \in DOMAIN metricsSeries[i].scores
    /\ [ i \in 1..4 |-> metricsSeries[i].scores.performance ] = <<800, 900, 700, 1000>>
    /\ ~synthetic.result.threw
    /\ synthetic.result.metrics.scores.performance = 85000

\* C14: the percentile builder raises an error and returns no Metrics for an
\* empty series, whatever the percentile, and for a percentile <= 0 or > 100;
\* for a series that is not empty and a percentile in (0, 100], 100 included,
\* it returns a Metrics value.
C14_BuilderErrors ==
    BuiltByPercentile =>
        IF Len(metricsSeries) = 0
        THEN synthetic.result =
                Threw("At least one metrics snapshot is required for percentile baseline")
        ELSE IF percentile <= 0 \/ percentile > 100
        THEN /\ synthetic.result.threw
             /\ "metrics" \notin DOMAIN synthetic.result
             /\ synthetic.result.message
                  = "Percentile must be between 1 and 100. Received: " \o ToString(percentile)
        ELSE /\ ~synthetic.result.threw
             /\ DOMAIN synthetic.result.metrics = {"scores", "coreWebVitals", "opportunities"}

\* a Metrics value is returned for the percentile 100
C14_Witness ==
    /\ BuiltByPercentile
    /\ Len(metricsSeries) = 2
    /\ percentile = 100
    /\ ~synthetic.result.threw
    /\ "cls" \in DOMAIN synthetic.result.metrics.coreWebVitals

\* C15: in the Metrics the builders return, a key is present iff at least
\* one snapshot has it, its value is aggregated over exactly the snapshots
\* that have it (so it lies within their values, and a snapshot lacking the
\* key never counts as 0), and the opportunities are empty.
C15_PresentKeysOnly ==
    (Built /\ ~synthetic.result.threw) =>
        /\ DOMAIN synthetic.result.metrics.scores = { k \in SCORE_KEYS : SnapshotsWith(k) # {} }
        /\ DOMAIN synthetic.result.metrics.coreWebVitals
             = { k \in VITAL_KEYS : SnapshotsWith(k) # {} }
        /\ \A key \in SCORE_KEYS \cup VITAL_KEYS :
            SnapshotsWith(key) # {} =>
                /\ BuiltValue(key) = Estimate(key, PercentileFor(key))
                /\ \E i \in SnapshotsWith(key) : BuiltValue(key) >= 100 * ValueAt(key, i)
                /\ \E i \in SnapshotsWith(key) : BuiltValue(key) <= 100 * ValueAt(key, i)
        /\ synthetic.result.metrics.opportunities = <<>>

\* three snapshots with opportunities, one of which has a performance score
\* and none of which has fcp: the score is that one value, fcp is absent
C15_Witness ==
    /\ Built
    /\ ~synthetic.result.threw
    /\ Len(metricsSeries) = 3
    /\ \A i \in 1..3 : metricsSeries[i].opportunities # <<>>
    /\ SnapshotsWith("performance") = {2}
    /\ SnapshotsWith("fcp") = {}
    /\ synthetic.result.metrics.scores = [performance |-> 100 * ValueAt("performance", 2)]
    /\ synthetic.result.metrics.coreWebVitals = <<>>

----------------------------------------------------------------------------
(* Further properties of the comparator, checked under SpecCompare *)

ScoreNames ==
    {"Performance Score", "Accessibility Score", "Best Practices Score", "SEO Score"}

\* the severity claimed for a metric of the given display name and a diff of
\* the given size (fixed point: 0.05 is 50, 200 ms is 200000)
ClaimedSeverity(name, size) ==
    LET bounds == IF name \in ScoreNames THEN <<200, 100, 50>>
                  ELSE IF name = "CLS" THEN <<100, 50, 20>>
                  ELSE <<1000000, 500000, 200000>>
    IN  IF size >= bounds[1] THEN "critical"
        ELSE IF size >= bounds[2] THEN "high"
        ELSE IF size >= bounds[3] THEN "medium"
        ELSE "low"

\* C16: the severity of every comparison, in whichever list it is, is the
\* bucket of |diff| for its family: scores 0.20 / 0.10 / 0.05, CLS
\* 0.10 / 0.05 / 0.02, every other vital 1000 / 500 / 200 ms, bounds
\* inclusive, else low.
C16_SeverityBuckets ==
    Compared =>
        \A i \in 1..Len(Emitted) :
            Emitted[i].severity =
                ClaimedSeverity(Emitted[i].metric,
                                IF Emitted[i].diff < 0 THEN -Emitted[i].diff ELSE Emitted[i].diff)

\* a score that rose by exactly 0.10 is an improvement of severity high, as
\* a drop by 0.10 is a regression of severity high
C16_Witness ==
    /\ Compared
    /\ \E i \in 1..Len(comparison.improvements) :
        /\ comparison.improvements[i].metric = "SEO Score"
        /\ comparison.improvements[i].diff = 100
        /\ comparison.improvements[i].severity = "high"

\* the fixed key order, by display name: scores, then vitals
KeyOrder ==
    << "Performance Score", "Accessibility Score", "Best Practices Score", "SEO Score",
       "FCP", "LCP", "TBT", "CLS", "Speed Index", "TTI" >>

KeyPlace(name) == CHOOSE i \in 1..Len(KeyOrder) : KeyOrder[i] = name

SeverityRank(severity) ==
    IF severity = "critical" THEN 0
    ELSE IF severity = "high" THEN 1
    ELSE IF severity = "medium" THEN 2
    ELSE 3

Size(entry) == IF entry.diff < 0 THEN -entry.diff ELSE entry.diff

\* entry a is to stand before entry b
StandsBefore(a, b) ==
    \/ SeverityRank(a.severity) < SeverityRank(b.severity)
    \/ /\ SeverityRank(a.severity) = SeverityRank(b.severity)
       /\ \/ Size(a) > Size(b)
          \/ Size(a) = Size(b) /\ KeyPlace(a.metric) < KeyPlace(b.metric)

\* the comparisons as they are made, before they are split and sorted
Unsorted ==
    compareScores(current.scores, baseline.scores)
        \o compareCoreWebVitals(current.coreWebVitals, baseline.coreWebVitals)

\* the list holds exactly the entries of `made` that satisfy the test
SameEntries(list, made, Test(_)) ==
    /\ Len(list) = Cardinality({ i \in 1..Len(made) : Test(made[i]) })
    /\ \A i \in 1..Len(made) :
        Test(made[i]) => \E p \in 1..Len(list) : list[p] = made[i]

\* C17: the regressions and the improvements are each ordered by severity
\* rank, then by |diff| descending, then by the fixed key order, and hold
\* exactly the comparisons that were made, unaltered.
C17_SortedBySeverity ==
    Compared =>
        /\ \A p, q \in 1..Len(comparison.regressions) :
            p < q => StandsBefore(comparison.regressions[p], comparison.regressions[q])
        /\ \A p, q \in 1..Len(comparison.improvements) :
            p < q => StandsBefore(comparison.improvements[p], comparison.improvements[q])
        /\ LET made == Unsorted
           IN  /\ SameEntries(comparison.regressions, made, LAMBDA c : c.isRegression)
               /\ SameEntries(comparison.improvements, made, LAMBDA c : c.isImprovement)

\* three regressions of medium severity: the drop of 0.06 first, then the
\* two drops of 0.05 in key order
C17_Witness ==
    /\ Compared
    /\ Len(comparison.regressions) = 3
    /\ [ p \in 1..3 |-> comparison.regressions[p].metric ]
         = <<"Best Practices Score", "Performance Score", "SEO Score">>
    /\ [ p \in 1..3 |-> comparison.regressions[p].diff ] = <<-60, -50, -50>>

\* the performance score of a snapshot, 0 when it has none
PerformanceOf(m) ==
    IF "performance" \in DOMAIN m.scores THEN m.scores.performance ELSE 0

\* C18: overallScore is base, current and diff = current - base of the
\* performance score alone, a missing performance score counting as 0; no
\* other key and no classification enters it, and it is produced also when
\* performance has no comparison entry.
C18_OverallScore ==
    Compared =>
        /\ DOMAIN comparison.overallScore = {"base", "current", "diff"}
        /\ comparison.overallScore.base = PerformanceOf(baseline)
        /\ comparison.overallScore.current = PerformanceOf(current)
        /\ comparison.overallScore.diff = PerformanceOf(current) - PerformanceOf(baseline)

\* performance 0.55 in current and none in baseline, with another score that
\* regressed: no entry for performance, and an overall change of +0.55
C18_Witness ==
    /\ Compared
    /\ "performance" \in DOMAIN current.scores
    /\ "performance" \notin DOMAIN baseline.scores
    /\ ~InList(Emitted, "Performance Score")
    /\ Len(comparison.regressions) >= 1
    /\ comparison.overallScore = [base |-> 0, current |-> 550, diff |-> 550]

\* the display names of the keys a snapshot has
NamesOf(m) ==
    { formatScoreKey(k) : k \in DOMAIN m.scores }
        \cup { formatMetricKey(k) : k \in DOMAIN m.coreWebVitals }

\* C19: a snapshot compared with itself has no regression and no
\* improvement; each of its keys is in unchanged, once, with diff 0 and
\* severity low; the overall diff is 0.
C19_SelfComparison ==
    (Compared /\ current = baseline) =>
        /\ comparison.regressions = <<>>
        /\ comparison.improvements = <<>>
        /\ \A name \in NamesOf(current) : Occurrences(comparison.unchanged, name) = 1
        /\ Len(comparison.unchanged) = Cardinality(NamesOf(current))
        /\ \A i \in 1..Len(comparison.unchanged) :
            /\ comparison.unchanged[i].diff = 0
            /\ comparison.unchanged[i].severity = "low"
        /\ comparison.overallScore.diff = 0

\* a snapshot of a score, a timing and a CLS compared with itself
C19_Witness ==
    /\ Compared
    /\ current = baseline
    /\ DOMAIN current.scores = {"performance"}
    /\ DOMAIN current.coreWebVitals = {"lcp", "cls"}
    /\ Len(comparison.unchanged) = 3

----------------------------------------------------------------------------
(* Further properties of the selector, checked under SpecSelect *)

\* the URL text a report is known by: requestedUrl when it is set and not
\* empty, else finalUrl
IdentityText(report) ==
    IF "requestedUrl" \in DOMAIN report /\ report.requestedUrl # PlainText("", 0)
    THEN report.requestedUrl
    ELSE IF "finalUrl" \in DOMAIN report THEN report.finalUrl ELSE PlainText("", 0)

\* the identity claimed: scheme and host, and the path without its trailing
\* slashes ("/" when nothing is left), of a text that parses; else the text
\* without its trailing slashes
Identity(report) ==
    LET text == IdentityText(report)
    IN  IF "origin" \in DOMAIN text
        THEN [ origin |-> text.origin, path |-> IF text.path = "" THEN "/" ELSE text.path ]
        ELSE [ text |-> text.text ]

\* the places, after the first, of the reports with the identity of the first
SameIdentityPlaces ==
    { i \in 2..Len(reports) : Identity(reports[i]) = Identity(reports[1]) }

\* C20: the selector treats two reports as of the same URL iff their
\* identities are equal: under the strategies that compare URLs, when some
\* historical report has the identity of the current one, the candidates are
\* exactly the historical reports that have it, and otherwise no candidate
\* has it.
C20_UrlIdentity ==
    (Selected /\ StrategyInForce # LATEST /\ Len(reports) >= 2) =>
        /\ ~pair.threw
        /\ \A i \in 2..Len(reports) :
            (normalizeReportUrl(reports[i]) = normalizeReportUrl(reports[1])) <=> (i \in SameIdentityPlaces)
        /\ SameIdentityPlaces # {} =>
             /\ Len(pair.baselineCandidates) = Cardinality(SameIdentityPlaces)
             /\ \A i \in SameIdentityPlaces :
                  \E k \in 1..Len(pair.baselineCandidates) : pair.baselineCandidates[k] = reports[i]
        /\ SameIdentityPlaces = {} =>
             \A k \in 1..Len(pair.baselineCandidates) :
                Identity(pair.baselineCandidates[k]) # Identity(reports[1])

\* current was asked for at the dashboard and redirected to the login page;
\* of the login page and the dashboard spelled with query, fragment and
\* trailing slashes, the dashboard alone is a candidate
C20_Witness ==
    /\ Selected
    /\ Len(reports) = 3
    /\ "requestedUrl" \in DOMAIN reports[1]
    /\ reports[1].requestedUrl = DashboardUrl /\ reports[1].finalUrl = LoginUrl
    /\ "requestedUrl" \notin DOMAIN reports[2] /\ reports[2].finalUrl = LoginUrl
    /\ "requestedUrl" \notin DOMAIN reports[3]
    /\ reports[3].finalUrl = Url("https://example.com", "/dashboard", 2, "?run=1", "#results")
    /\ pair.baselineCandidates = <<reports[3]>>

StrategyParsed == strategyPercentile # NoResult

\* C21: getPercentileFromStrategy returns N for exactly the strings "p" and
\* the decimal numeral of an N of 1..100, and undefined for every other
\* string; and the selector falls back to all historical reports, as for a
\* percentile strategy, for exactly the strings that give a number (median,
\* which has a case of its own, apart).
C21_PercentileOfStrategy ==
    StrategyParsed =>
        /\ strategyPercentile.value # <<>> =>
              /\ strategyPercentile.value[1] \in 1..100
              /\ strategyArgs[1] = PStrategy(strategyPercentile.value[1])
        /\ strategyPercentile.value = <<>> => strategyArgs[1] \notin PercentileStrategies
        /\ (Selected /\ Len(reports) >= 3 /\ SameIdentityPlaces = {} /\ strategyArgs[1] # MEDIAN) =>
              ((pair.baselineCandidates = Tail(reports)) <=> (strategyPercentile.value # <<>>))

\* p100 gives 100, and the selector, finding no report of the URL of the
\* current one, takes all historical reports
C21_Witness ==
    /\ StrategyParsed
    /\ Selected
    /\ strategyArgs = << <<"p", "1", "0", "0">> >>
    /\ strategyPercentile.value = <<100>>
    /\ Len(reports) = 3
    /\ SameIdentityPlaces = {}
    /\ pair.baselineCandidates = Tail(reports)


----------------------------------------------------------------------------
(* Properties of the extractor, checked under SpecExtract *)

Extracted == extracted # NoResult

\* the category a score key stands for
ClaimedCategory(key) == IF key = "bestPractices" THEN "best-practices" ELSE key

\* the audit a vital key stands for
ClaimedAudit(key) ==
    CASE key = "fcp" -> "first-contentful-paint"
      [] key = "lcp" -> "largest-contentful-paint"
      [] key = "tbt" -> "total-blocking-time"
      [] key = "cls" -> "cumulative-layout-shift"
      [] key = "speedIndex" -> "speed-index"
      [] key = "tti" -> "interactive"

\* the places of the report's audits that have this id and a numericValue
MeasuredAt(report, id) ==
    { i \in 1..Len(report.audits) :
        /\ report.audits[i].id = id
        /\ "numericValue" \in DOMAIN report.audits[i].audit }

\* C25: extractMetrics never turns missing data into a number: a score key is
\* present exactly when its category is present with a non-null score, a
\* vital key exactly when its audit is present with a numericValue, and a
\* present key holds the report's value unchanged (0 included)
C25_MissingStaysMissing ==
    Extracted =>
        LET report == extracted.given
            metrics == extracted.metrics
        IN  /\ DOMAIN metrics.scores \subseteq SCORE_KEYS
            /\ DOMAIN metrics.coreWebVitals \subseteq VITAL_KEYS
            /\ \A key \in SCORE_KEYS :
                LET id == ClaimedCategory(key)
                IN  IF id \in DOMAIN report.categories /\ report.categories[id].score # <<>>
                        THEN /\ key \in DOMAIN metrics.scores
                             /\ <<metrics.scores[key]>> = report.categories[id].score
                        ELSE key \notin DOMAIN metrics.scores
            /\ \A key \in VITAL_KEYS :
                LET at == MeasuredAt(report, ClaimedAudit(key))
                IN  IF at # {}
                        THEN /\ key \in DOMAIN metrics.coreWebVitals
                             /\ \A i \in at :
                                    metrics.coreWebVitals[key] = report.audits[i].audit.numericValue
                        ELSE key \notin DOMAIN metrics.coreWebVitals

\* a null performance score, an fcp audit without numericValue, no lcp audit,
\* a layout shift of 0 and a time to interactive of 1.5
C25_Witness ==
    /\ Extracted
    /\ lhr.categories = [id \in {"performance"} |-> [score |-> <<>>]]
    /\ Len(lhr.audits) = 6
    /\ lhr.audits[1].id = "first-contentful-paint"
    /\ "numericValue" \notin DOMAIN lhr.audits[1].audit
    /\ MeasuredAt(lhr, "largest-contentful-paint") = {}
    /\ extracted.metrics.scores = <<>>
    /\ extracted.metrics.coreWebVitals = [tbt |-> 1500, cls |-> 0, speedIndex |-> 1500, tti |-> 1500]

\* the audit at a place has room for improvement, as the claim words it
ClaimedRoom(report, i) ==
    LET audit == report.audits[i].audit
    IN  /\ "details" \in DOMAIN audit
        /\ audit.details.type = "opportunity"
        /\ audit.score \notin {<<>>, <<1000>>}

\* the savings an opportunity is ordered by
ClaimedSavings(opportunity) ==
    IF "savingsMs" \in DOMAIN opportunity THEN opportunity.savingsMs ELSE 0

\* the place in the report of the audit an opportunity came from
AuditPlace(report, opportunity) ==
    CHOOSE i \in 1..Len(report.audits) : report.audits[i].id = opportunity.id

\* C26: the opportunities are exactly the audits of details type
\* "opportunity" whose score is neither null nor 1, each once and with its
\* fields copied, ordered by savingsMs descending (missing counts as 0, ties
\* stay in audit order); the report passed in is left unchanged
C26_Opportunities ==
    Extracted =>
        LET report == extracted.given
            found == extracted.metrics.opportunities
        IN  /\ lhr = report
            /\ \A i \in 1..Len(report.audits) :
                Cardinality({ p \in 1..Len(found) : found[p].id = report.audits[i].id })
                    = IF ClaimedRoom(report, i) THEN 1 ELSE 0
            /\ \A p \in 1..Len(found) :
                \E i \in 1..Len(report.audits) :
                    LET audit == report.audits[i].audit
                    IN  /\ found[p].id = report.audits[i].id
                        /\ <<found[p].score>> = audit.score
                        /\ found[p].title = audit.title
                        /\ found[p].description = audit.description
                        /\ "savingsMs" \in DOMAIN found[p] <=> "overallSavingsMs" \in DOMAIN audit.details
                        /\ "savingsMs" \in DOMAIN found[p] => found[p].savingsMs = audit.details.overallSavingsMs
                        /\ "savingsBytes" \in DOMAIN found[p] <=> "overallSavingsBytes" \in DOMAIN audit.details
                        /\ "savingsBytes" \in DOMAIN found[p] => found[p].savingsBytes = audit.details.overallSavingsBytes
            /\ \A p, q \in 1..Len(found) :
                p < q =>
                    \/ ClaimedSavings(found[p]) > ClaimedSavings(found[q])
                    \/ /\ ClaimedSavings(found[p]) = ClaimedSavings(found[q])
                       /\ AuditPlace(report, found[p]) < AuditPlace(report, found[q])

\* three audits with room for improvement: no savingsMs, savingsMs 0 and
\* savingsMs 300; the last comes first and the other two keep their order
C26_Witness ==
    /\ Extracted
    /\ Len(lhr.audits) = 3
    /\ \A i \in 1..3 : ClaimedRoom(lhr, i)
    /\ "overallSavingsMs" \notin DOMAIN lhr.audits[1].audit.details
    /\ lhr.audits[2].audit.details = [type |-> "opportunity", overallSavingsMs |-> 0]
    /\ lhr.audits[3].audit.details
            = [type |-> "opportunity", overallSavingsMs |-> 300, overallSavingsBytes |-> 1024]
    /\ [ p \in 1..3 |-> extracted.metrics.opportunities[p].id ]
            = << lhr.audits[3].id, lhr.audits[1].id, lhr.audits[2].id >>

----------------------------------------------------------------------------
(* Properties of the analysis, checked under SpecAnalyze *)

Analyzed == analysis # NoResult

\* analyze ran over loaded reports
AnalyzedReports == Analyzed /\ ~loadOutcome.threw

\* the performance score of a loaded report, 0 if it has none
ClaimedPerformance(report) ==
    IF report.categories["performance"].score = <<>> THEN 0
    ELSE report.categories["performance"].score[1]

\* the performance scores a set of candidates spans
Spanned(candidates, score) ==
    /\ \E i \in 1..Len(candidates) : ClaimedPerformance(candidates[i]) <= score
    /\ \E i \in 1..Len(candidates) : ClaimedPerformance(candidates[i]) >= score

\* C22: over two or more loaded reports the comparison is computed between
\* the metrics of the first report and the baseline the selector chooses for
\* the strategy in force (same-url, no other strategy can be given): the
\* candidate itself when there is one, and when there are several a baseline
\* synthesized from them, whose performance then lies among theirs
C22_SelectorBaseline ==
    (AnalyzedReports /\ Len(loadOutcome.reports) >= 2) =>
        LET chosen == selectCurrentAndBaselineReports(loadOutcome.reports, <<>>)
            candidates == chosen.baselineCandidates
        IN  /\ ~analysis.threw
            /\ Len(candidates) = 1 =>
                    analysis.comparison
                        = compareMetrics(extractMetrics(chosen.current),
                                         extractMetrics(chosen.baseline))
            /\ Len(candidates) > 1 =>
                    Spanned(candidates, analysis.comparison.overallScore.base)

\* C23: with exactly one report loaded analyze does not fail; its comparison
\* has no regressions, improvements or unchanged entries, and an overallScore
\* of base = current = the report's performance score (0 if absent), diff 0
C23_SingleReport ==
    (AnalyzedReports /\ Len(loadOutcome.reports) = 1) =>
        /\ ~analysis.threw
        /\ analysis.comparison.regressions = <<>>
        /\ analysis.comparison.improvements = <<>>
        /\ analysis.comparison.unchanged = <<>>
        /\ analysis.comparison.overallScore
                = [ base |-> ClaimedPerformance(loadOutcome.reports[1]),
                    current |-> ClaimedPerformance(loadOutcome.reports[1]),
                    diff |-> 0 ]
        /\ analysis.result.regressions = <<>>
        /\ analysis.result.improvements = <<>>

\* one report without a performance score: the overall score is 0 against 0
C23_Witness ==
    /\ AnalyzedReports
    /\ Len(loadOutcome.reports) = 1
    /\ loadOutcome.reports[1].categories["performance"].score = <<>>
    /\ ~analysis.threw
    /\ analysis.comparison.overallScore = [base |-> 0, current |-> 0, diff |-> 0]

InSteps(step) == \E p \in 1..Len(analysis.steps) : analysis.steps[p] = step

StepsBefore(step, later) ==
    \A q \in 1..Len(analysis.steps) :
        analysis.steps[q] = later =>
            \E p \in 1..(q - 1) : analysis.steps[p] = step

OutputStep == "output: " \o givenOptions.output

CommentSteps == {"comment posted", "fail: failed to post comment"}

----------------------------------------------------------------------------
(* Properties of the analyze command, checked under SpecCli *)

Resolved == command # NoResult

\* what a setting resolves to by the stated precedence: the flag, else the
\* valid value of the config file, else the built-in default
ClaimedSetting(flag, key, valid, default) ==
    IF flag \in DOMAIN argv THEN argv[flag]
    ELSE IF /\ "ai" \in DOMAIN configFile
            /\ key \in DOMAIN configFile.ai
            /\ configFile.ai[key] \in valid
        THEN configFile.ai[key]
    ELSE default

\* C24: provider, autoFix and output each resolve to the flag's value when
\* the flag is given, else to the config file's value (ai.provider,
\* ai.autoFix, ai.outputFormat) when it sets one, else to local, false and
\* terminal
C24_FlagConfigDefault ==
    Resolved =>
        /\ command.options.provider
                = ClaimedSetting("provider", "provider", {"copilot", "openai", "local"}, "local")
        /\ command.options.autoFix
                = ClaimedSetting("autoFix", "autoFix", {"true", "false"}, "false")
        /\ command.options.output
                = ClaimedSetting("output", "outputFormat", {"terminal", "json", "markdown"}, "terminal")

----------------------------------------------------------------------------
(* Properties of the commenter, checked under SpecComment *)

Posted == lastPost # NoResult

\* the places of the comments that carry the marker
MarkedPlaces == { i \in 1..Len(prComments) : COMMENT_MARKER \in { prComments[i].body[k] : k \in 1..Len(prComments[i].body) } }

\* C28: postPRComment creates a comment only when no comment of the pull
\* request carries the marker, and else updates that comment; so after any
\* calls made one after the other at most one comment carries the marker,
\* and after a call that succeeded its body is the marker followed by the
\* body of that call
C28_OneMarkedComment ==
    /\ Cardinality(MarkedPlaces) <= 1
    /\ Posted =>
        /\ lastPost.did = "created" => lastPost.marked = {}
        /\ lastPost.did = "updated" => lastPost.marked # {}
        /\ ~lastPost.threw =>
                \A i \in MarkedPlaces :
                    prComments[i].body = <<COMMENT_MARKER, "\n">> \o lastPost.body

----------------------------------------------------------------------------
(* Properties of the Copilot client, checked under SpecCopilot *)

\* the calls of getClient whose caller has the client in hand
Served == { i \in 1..Len(calls) : calls[i].pc = "has client" }

\* C29: as long as stopCopilotClient was not called, however the callers of
\* getClient interleave, at most one CopilotClient is constructed and
\* started, and every caller that gets a client gets that one
C29_OneClient ==
    stops = 0 =>
        /\ Len(clients) <= 1
        /\ Len(promises) <= 1
        /\ \A i \in Served : calls[i].client = 1
        /\ clientInstance \in {0, 1}

\* three callers, two of which called while the first one's initialization
\* was pending, hold the one client
C29_Witness ==
    /\ stops = 0 /\ stopper = "idle"
    /\ Len(calls) = 3
    /\ Served = {1, 2, 3}
    /\ { calls[i].caller : i \in 1..3 } = Callers
    /\ calls[1].started
    /\ \A i \in {2, 3} : calls[i].found.promise = "pending" /\ calls[i].promise = 1
    /\ Len(clients) = 1
    /\ \A i \in Served : calls[i].client = 1

\* C30: a call of getClient that finds a failed initialization, or a client
\* that is no longer connected, or nothing (as stopCopilotClient leaves the
\* module), starts a fresh initialization
C30_Recovers ==
    \A i \in 1..Len(calls) :
        LET found == calls[i].found
        IN  ( \/ found.promise = "rejected"
              \/ found.instance = "disconnected"
              \/ found.instance = "null" /\ found.promise = "null" )
                => calls[i].started


============================================================================
